---- MODULE Spec2Model ----
(***************************************************************************)
(* Herd of Agents, thread-per-agent realization (src/herd_agents).         *)
(*                                                                         *)
(* The model follows the threads of the program: the main thread           *)
(* (create_genesis_agent, start, stop), the monitor thread                 *)
(* (AgentManager.monitor) and one thread per agent (Agent.run).  A step    *)
(* is one block of code that runs under MessageBus.lock, one operation on  *)
(* a thread-safe queue.Queue, or a run of statements that touch only the   *)
(* thread's own data.                                                      *)
(*                                                                         *)
(* Agent ids are numbers: "genesis" is 0 and the n-th uuid drawn by spawn  *)
(* is n.  The reserved names "system", "manager" and "broadcast" are       *)
(* negative numbers.  A message is the dict the code builds, with the      *)
(* timestamp read from a clock that ticks once per message built.          *)
(***************************************************************************)
EXTENDS Integers, Sequences, FiniteSets, TLC

\* ---------------------------------------------------------------- bounds
\* number of uuids spawn may draw (agents besides genesis)
MaxSpawn == 2
\* number of BROADCAST / MESSAGE tags the generation call may emit in all
MaxPub == 2
\* number of tags in one response
MaxTags == 2
\* number of generation calls of agents that return
MaxThinks == 2
\* SpecHist: how far below max_history the history starts, and the spawns
HistSlack == 1
HistSpawn == 1
\* SpecStop: publishes of the agents, spawns, generation calls that return
StopPub == 1
StopSpawn == 1
StopThinks == 2
\* SpecWfc: spawns, generation calls that return, the clock's last value
\* (in half seconds), the longest a sleep(0.5) lasts (in half seconds)
WfcSpawn == 1
WfcThinks == 2
MaxElapsed == 5
MaxSleep == 2
\* SpecParse: tags in a response, distinct arguments of a tag
MaxText == 3
MaxArg == 2
\* SpecApi: calls of the public methods, messages published among them
MaxCalls == 5
MaxUnits == 2
ScanSpawn == 1
ScanThinks == 2
LockPub == 1
LockSpawn == 2
LockThinks == 2
ApiPub == 2
\* SpecStart: spawns, generation calls that return
StartSpawn == 1
StartThinks == 3
\* SpecCoop: generation calls that return
CoopThinks == 3

\* ------------------------------------------------------- program constants
max_history == 1000
GENESIS == 0
SYSTEM == -1
MANAGER == -2
BROADCAST == -3
NoParent == -4
\* timeout = None, the default of wait_for_convergence
NoTimeout == -5
\* len(context_history) below which update_agent_summary returns at once
SummaryMin == 4

Ids == GENESIS .. MaxSpawn
\* the threads that call MessageBus.publish: every agent, and the main
\* thread, whose stop() publishes with from = "manager"
Publishers == Ids \cup {MANAGER}

VARIABLES
    \* MessageBus
    agent_queues,     \* keys of the dict agent_queues, in insertion order
    mailbox,          \* id -> contents of the queue.Queue held for the id
    message_history,  \* the list message_history
    lock,             \* TRUE while unregister_agent holds MessageBus.lock
    \* AgentManager
    agents,           \* keys of the dict agents (the Registry)
    threads,          \* keys of the dict threads
    units,            \* agent -> execution units started on its run/lifecycle
    running,
    manager_queue,    \* the control queue of spawn / terminate requests
    total_agents_created,
    total_agents_died,
    \* Agent objects: each function's domain is the set of objects built
    alive,
    parent_id,
    children_ids,
    inbox,
    context_history, \* agent -> the roles of its transcript entries, oldest first
    \* threads
    pc,               \* agent thread -> place in Agent.run; main thread -> place in main
    pc_mon,
    mon_req,          \* the request the monitor is handling
    actions,          \* agent thread -> actions of the response left to run
    msg,              \* publisher -> the message its publish call holds
    snap,             \* publisher -> the list agent_ids of publish
    fan_i,            \* publisher -> the place of its loop in agent_ids
    got,              \* agent thread -> the list messages of get_messages
    qref,             \* agent thread -> the queue object q it holds
    \* environment
    clock,            \* datetime.now(), as a count of messages built
    next_id,          \* the next uuid
    tags_left,        \* BROADCAST / MESSAGE tags the model still allows
    spawns_left,      \* SPAWN tags the model still allows
    thinks_left,      \* generation calls the model still lets return
    \* history variables (not program state)
    passed,           \* every message passed to publish, in call order
    failed,           \* direct messages whose delivery returned False
    late,             \* direct messages built for an agent that was not alive
    \* the caller of wait_for_convergence
    wfc_pc,           \* its place in wait_for_convergence, or its result
    timeout,          \* the argument timeout, in seconds
    elapsed,          \* datetime.now() - start, in half seconds
    \* the agent threads as readers of the Registry
    listing,          \* agent -> _cycle_count, and its get_active_agents call
    \* one call of execute_actions, taken alone
    resp_text,        \* the response: its tags in the order of the text
    oplist,           \* the list actions, as far as it is not yet executed
    executed,         \* the actions _execute_single_action was called with
    parse_pc,         \* the place in execute_actions
    self_alive,       \* the flag alive of the agent that runs the call
    tool_updates,     \* its list tool_updates
    \* history variable (not program state)
    api_call          \* the last call a caller of the public methods made

vars == << agent_queues, mailbox, message_history, lock, agents, threads, units,
           running, manager_queue, total_agents_created, total_agents_died,
           alive, parent_id, children_ids, inbox, context_history, pc,
           pc_mon, mon_req, actions, msg, snap, fan_i, got, qref, clock, next_id,
           tags_left, spawns_left, thinks_left, passed, failed, late,
           wfc_pc, timeout, elapsed, listing, resp_text, oplist, executed, parse_pc,
           self_alive, tool_updates, api_call >>

bus_vars == << agent_queues, mailbox, message_history, lock >>
mgr_vars == << agents, threads, units, running, manager_queue,
               total_agents_created, total_agents_died >>
obj_vars == << alive, parent_id, children_ids, inbox, context_history >>

\* len(agent.context_history), as update_agent_summary reads it (line 106)
ctx_len == [a \in DOMAIN context_history |-> Len(context_history[a])]

\* think with the entries in the other order: the response, then the prompt
think_append_ResponseFirst(history) == history \o << "assistant", "user" >>

\* think, lines 175-176: the prompt joins the transcript with role user,
\* then the response with role assistant
think_append(history) == history \o << "user", "assistant" >>
pub_vars == << msg, snap, fan_i >>
get_vars == << got, qref >>
hist_vars == << passed, failed, late >>
env_vars == << clock, next_id, tags_left, spawns_left, thinks_left >>
wfc_vars == << wfc_pc, timeout, elapsed, listing >>
parse_vars == << resp_text, oplist, executed, parse_pc, self_alive,
                 tool_updates >>

\* ---------------------------------------------------------------- helpers
Range(s) == { s[i] : i \in DOMAIN s }

Count(m, s) == Cardinality({ i \in DOMAIN s : s[i] = m })

Registered(id) == id \in Range(agent_queues)

RemoveKey(s, id) == SelectSeq(s, LAMBDA x : x # id)

\* no call yet; n counts the calls
NoCall == [op |-> "none", id |-> NoParent, n |-> 0]

NoMsg == [from |-> NoParent, to |-> NoParent, content |-> << >>, timestamp |-> 0]

\* the dict Agent.broadcast / Agent.message / AgentManager.stop builds
Message(f, t, now) ==
    [from |-> f, to |-> t, content |-> <<"text">>, timestamp |-> now]

\* a failure notice addressed to the target that was not found
FailureNotice_ToTarget(m, now) ==
    [from |-> SYSTEM, to |-> m.to,
     content |-> <<"DELIVERY FAILED", m.to>>, timestamp |-> now]

\* the dict failure_notice of MessageBus.publish
FailureNotice(m, now) ==
    [from |-> SYSTEM, to |-> m.from,
     content |-> <<"DELIVERY FAILED", m.to>>, timestamp |-> now]

\* ------------------------------------------------------------- MessageBus
\* a history that records a message only when some mailbox can take it
HistoryAppend_DeliverableOnly(h, m) ==
    IF m.to = BROADCAST \/ Registered(m.to) THEN Append(h, m) ELSE h

\* a history that records direct messages only
HistoryAppend_DirectOnly(h, m) ==
    IF m.to = BROADCAST THEN h ELSE Append(h, m)

\* a history that drops the newest entry when it is too long
HistoryAppend_DropNewest(h, m) ==
    IF Len(h) + 1 > max_history THEN h ELSE Append(h, m)

\* publish, lines 49-53: append, then drop the first entry when too long
HistoryAppend(h, m) ==
    LET h1 == Append(h, m)
    IN  IF Len(h1) > max_history THEN Tail(h1) ELSE h1

\* a delivery that does not test the registration
CanDeliver_Always(agent_id) == TRUE

\* _deliver_to_agent, line 91: the test made under the lock
CanDeliver(agent_id) == agent_id \in Range(agent_queues)

\* a delivery that puts the message at the front of the queue
deliver_to_agent_Front(mb, agent_id, message) ==
    IF CanDeliver(agent_id)
    THEN [mb EXCEPT ![agent_id] = << message >> \o @]
    ELSE mb

\* a delivery that puts the message twice
deliver_to_agent_Twice(mb, agent_id, message) ==
    IF CanDeliver(agent_id)
    THEN [mb EXCEPT ![agent_id] = Append(Append(@, message), message)]
    ELSE mb

\* _deliver_to_agent: the mailboxes after the call
deliver_to_agent(mb, agent_id, message) ==
    IF CanDeliver(agent_id)
    THEN [mb EXCEPT ![agent_id] = Append(@, message)]
    ELSE mb

\* execute_actions, lines 187-188, and lifecycle, lines 386-394: where an
\* agent thread goes on after an action: the next action of the response,
\* or the loop test when none is left
Resume(rest, is_alive) ==
    IF rest # << >> THEN "exec"
    ELSE IF is_alive THEN "check" ELSE "exited"

\* where a publisher goes on when publish returns
AfterPublish(t) ==
    IF t = MANAGER THEN "stop_wait" ELSE Resume(actions[t], alive[t])

\* publish, lines 49-57
PublishHistory(t) ==
    /\ pc[t] = "pub_hist"
    /\ ~lock
    /\ message_history' = HistoryAppend(message_history, msg[t])
    /\ pc' = [pc EXCEPT ![t] = IF msg[t].to = BROADCAST
                                THEN "pub_snap" ELSE "pub_direct"]
    /\ UNCHANGED << agent_queues, mailbox, lock, mgr_vars, wfc_vars, parse_vars, api_call, obj_vars, pc_mon,
                    mon_req, actions, pub_vars, get_vars, env_vars,
                    hist_vars >>

\* a publish that copies the keys of agent_queues twice over
PublishSnapshot_Twice(t) ==
    /\ pc[t] = "pub_snap"
    /\ ~lock
    /\ IF agent_queues = << >>
       THEN /\ pc' = [pc EXCEPT ![t] = AfterPublish(t)]
            /\ msg' = [msg EXCEPT ![t] = NoMsg]
            /\ UNCHANGED << snap, fan_i >>
       ELSE /\ pc' = [pc EXCEPT ![t] = "pub_fan"]
            /\ snap' = [snap EXCEPT ![t] = agent_queues \o agent_queues]
            /\ fan_i' = [fan_i EXCEPT ![t] = 1]
            /\ msg' = msg
    /\ UNCHANGED << bus_vars, mgr_vars, wfc_vars, parse_vars, api_call, obj_vars, pc_mon, mon_req, actions,
                    get_vars, env_vars, hist_vars >>

\* publish, lines 61-62: agent_ids = list(self.agent_queues.keys())
PublishSnapshot(t) ==
    /\ pc[t] = "pub_snap"
    /\ ~lock
    /\ IF agent_queues = << >>
       THEN /\ pc' = [pc EXCEPT ![t] = AfterPublish(t)]
            /\ msg' = [msg EXCEPT ![t] = NoMsg]
            /\ UNCHANGED << snap, fan_i >>
       ELSE /\ pc' = [pc EXCEPT ![t] = "pub_fan"]
            /\ snap' = [snap EXCEPT ![t] = agent_queues]
            /\ fan_i' = [fan_i EXCEPT ![t] = 1]
            /\ msg' = msg
    /\ UNCHANGED << bus_vars, mgr_vars, wfc_vars, parse_vars, api_call, obj_vars, pc_mon, mon_req, actions,
                    get_vars, env_vars, hist_vars >>

\* a fan-out that does not leave the sender out
FanoutTarget_All(agent_id, from_agent) == TRUE

\* publish, line 65: the sender is left out of its own broadcast
FanoutTarget(agent_id, from_agent) == agent_id # from_agent

\* publish, lines 64-66: one turn of the loop over agent_ids
PublishFanout(t) ==
    /\ pc[t] = "pub_fan"
    /\ LET agent_id == snap[t][fan_i[t]]
       IN  /\ IF FanoutTarget(agent_id, msg[t].from)
              THEN /\ ~lock
                   /\ mailbox' = deliver_to_agent(mailbox, agent_id, msg[t])
              ELSE mailbox' = mailbox
           /\ IF fan_i[t] = Len(snap[t])
              THEN /\ pc' = [pc EXCEPT ![t] = AfterPublish(t)]
                   /\ msg' = [msg EXCEPT ![t] = NoMsg]
                   /\ snap' = [snap EXCEPT ![t] = << >>]
                   /\ fan_i' = [fan_i EXCEPT ![t] = 0]
              ELSE /\ fan_i' = [fan_i EXCEPT ![t] = @ + 1]
                   /\ UNCHANGED << pc, msg, snap >>
    /\ UNCHANGED << agent_queues, message_history, lock, mgr_vars, wfc_vars, parse_vars, api_call, obj_vars,
                    pc_mon, mon_req, actions, get_vars, env_vars,
                    hist_vars >>

\* publish, lines 69-81: the direct delivery and, when it failed, the
\* failure notice built for the sender (from_agent is a non-empty string
\* for every publisher of the program)
PublishDirect(t) ==
    /\ pc[t] = "pub_direct"
    /\ ~lock
    /\ mailbox' = deliver_to_agent(mailbox, msg[t].to, msg[t])
    /\ IF CanDeliver(msg[t].to)
       THEN /\ pc' = [pc EXCEPT ![t] = AfterPublish(t)]
            /\ msg' = [msg EXCEPT ![t] = NoMsg]
            /\ UNCHANGED << clock, failed >>
       ELSE /\ pc' = [pc EXCEPT ![t] = "pub_notice"]
            /\ msg' = [msg EXCEPT ![t] = FailureNotice(msg[t], clock + 1)]
            /\ clock' = clock + 1
            /\ failed' = failed \cup {msg[t]}
    /\ UNCHANGED << agent_queues, message_history, lock, mgr_vars, wfc_vars, parse_vars, api_call, obj_vars,
                    pc_mon, mon_req, actions, snap, fan_i, get_vars, next_id,
                    tags_left, spawns_left, thinks_left, passed, late >>

\* publish, line 82: the failure notice goes to the sender's mailbox
PublishNotice(t) ==
    /\ pc[t] = "pub_notice"
    /\ ~lock
    /\ mailbox' = deliver_to_agent(mailbox, msg[t].to, msg[t])
    /\ pc' = [pc EXCEPT ![t] = AfterPublish(t)]
    /\ msg' = [msg EXCEPT ![t] = NoMsg]
    /\ UNCHANGED << agent_queues, message_history, lock, mgr_vars, wfc_vars, parse_vars, api_call, obj_vars,
                    pc_mon, mon_req, actions, snap, fan_i, get_vars, env_vars,
                    hist_vars >>

\* a register_agent that makes a new queue whether or not the key exists
BusRegister_Reset(id) ==
    /\ agent_queues' = IF Registered(id) THEN agent_queues
                       ELSE Append(agent_queues, id)
    /\ mailbox' = [mailbox EXCEPT ![id] = << >>]

\* register_agent of the bus: a new, empty queue for a new key
BusRegister(id) ==
    /\ agent_queues' = IF Registered(id) THEN agent_queues
                       ELSE Append(agent_queues, id)
    /\ mailbox' = IF Registered(id) THEN mailbox
                  ELSE [mailbox EXCEPT ![id] = << >>]

\* get_messages, lines 105-108, called by check_messages at the top of the
\* lifecycle loop: the queue is looked up under the lock
CheckMessages(a) ==
    /\ pc[a] = "check"
    /\ ~lock
    /\ IF Registered(a)
       THEN /\ qref' = [qref EXCEPT ![a] = "cur"]
            /\ pc' = [pc EXCEPT ![a] = "drain"]
       ELSE /\ qref' = qref
            /\ pc' = [pc EXCEPT ![a] = "think"]
    /\ UNCHANGED << bus_vars, mgr_vars, wfc_vars, parse_vars, api_call, obj_vars, pc_mon, mon_req, actions,
                    pub_vars, got, env_vars, hist_vars >>

\* an inbox that is replaced by the list get_messages returned
InboxExtend_Replace(box, new_messages) == new_messages

\* what check_messages does with the list get_messages returned (line 329)
InboxExtend(box, new_messages) == box \o new_messages

\* get_messages, lines 111-116: one q.get_nowait(); on queue.Empty the call
\* returns and check_messages extends the inbox
Drain(a) ==
    /\ pc[a] = "drain"
    /\ IF qref[a] = "cur" /\ mailbox[a] # << >>
       THEN /\ got' = [got EXCEPT ![a] = Append(@, Head(mailbox[a]))]
            /\ mailbox' = [mailbox EXCEPT ![a] = Tail(@)]
            /\ UNCHANGED << pc, qref, inbox >>
       ELSE /\ inbox' = [inbox EXCEPT ![a] = InboxExtend(@, got[a])]
            /\ got' = [got EXCEPT ![a] = << >>]
            /\ qref' = [qref EXCEPT ![a] = "none"]
            /\ pc' = [pc EXCEPT ![a] = "think"]
            /\ mailbox' = mailbox
    /\ UNCHANGED << agent_queues, message_history, lock, mgr_vars, wfc_vars, parse_vars, api_call, alive,
                    parent_id, children_ids, context_history, pc_mon, mon_req,
                    actions, pub_vars, env_vars, hist_vars >>

\* wait_for_messages, lines 359-360: the queue is looked up without the
\* lock.  An agent that is not registered falls to the polling loop of
\* lines 373-379, which the model does not follow further.
WaitLookup(a) ==
    /\ IF Registered(a)
       THEN /\ qref' = [qref EXCEPT ![a] = "cur"]
            /\ pc' = [pc EXCEPT ![a] = "wait_get"]
       ELSE /\ qref' = qref
            /\ pc' = [pc EXCEPT ![a] = "poll"]

\* a wait that ends when the seconds named by the tag have passed
WaitGet_Sleep(a) ==
    /\ pc[a] = "wait_get"
    /\ qref' = [qref EXCEPT ![a] = "none"]
    /\ actions' = [actions EXCEPT ![a] = Tail(@)]
    /\ pc' = [pc EXCEPT ![a] = Resume(Tail(actions[a]), alive[a])]
    /\ UNCHANGED << bus_vars, mgr_vars, wfc_vars, parse_vars, api_call, obj_vars,
                    pc_mon, mon_req, pub_vars, got, env_vars, hist_vars >>

\* wait_for_messages, lines 363-367: q.get(block=True) returns the first
\* message once the queue holds one, and the inbox takes it; the call
\* returns to the loop of execute_actions, which is done with the WAIT
WaitGet(a) ==
    /\ pc[a] = "wait_get"
    /\ qref[a] = "cur"
    /\ mailbox[a] # << >>
    /\ inbox' = [inbox EXCEPT ![a] = Append(@, Head(mailbox[a]))]
    /\ mailbox' = [mailbox EXCEPT ![a] = Tail(@)]
    /\ qref' = [qref EXCEPT ![a] = "none"]
    /\ actions' = [actions EXCEPT ![a] = Tail(@)]
    /\ pc' = [pc EXCEPT ![a] = Resume(Tail(actions[a]), alive[a])]
    /\ UNCHANGED << agent_queues, message_history, lock, mgr_vars, wfc_vars,
                    parse_vars, api_call, alive, parent_id, children_ids, context_history,
                    pc_mon, mon_req, pub_vars, got, env_vars, hist_vars >>

\* ------------------------------------------------------------------ Agent
Kinds == <<"SPAWN", "BROADCAST", "MESSAGE", "WAIT", "PRINT", "TERMINATE">>

Tag(k, t) == [kind |-> k, target |-> t]

\* the numbers of seconds a WAIT tag may name
WaitArgs == {0, 1}

\* the tags the generation call may put in a response
Tags == { Tag("SPAWN", NoParent), Tag("BROADCAST", NoParent),
          Tag("TERMINATE", NoParent) }
        \cup { Tag("MESSAGE", t) : t \in Ids }
        \cup { Tag("WAIT", n) : n \in WaitArgs }

\* a response: its tags in the order of the text
Responses == UNION { [1..n -> Tags] : n \in 0..MaxTags }

OfKind(response, k) == SelectSeq(response, LAMBDA tag : tag.kind = k)

\* a parse that keeps the order of the text
ParseActions_TextOrder(response) ==
    SelectSeq(response, LAMBDA tag : tag.kind \in Range(Kinds))

\* _parse_agent_actions, lines 119-153: one scan of the text per kind
ParseActions(response) ==
    OfKind(response, "SPAWN") \o OfKind(response, "BROADCAST")
    \o OfKind(response, "MESSAGE") \o OfKind(response, "WAIT")
    \o OfKind(response, "PRINT") \o OfKind(response, "TERMINATE")

NumPublish(response) ==
    Len(OfKind(response, "BROADCAST")) + Len(OfKind(response, "MESSAGE"))

\* Agent.__init__ (lines 70-97), for the object with this id and parent
NewAgent(id, parent) ==
    /\ alive' = (id :> TRUE) @@ alive
    /\ parent_id' = (id :> parent) @@ parent_id
    /\ children_ids' = (id :> << >>) @@ children_ids
    /\ inbox' = (id :> << >>) @@ inbox
    /\ context_history' = (id :> << >>) @@ context_history

\* think, lines 155-181, with the parse of execute_actions (line 185): the
\* generation call returns, the prompt and the response join the history
Think(a) ==
    /\ pc[a] = "think"
    /\ thinks_left > 0
    /\ thinks_left' = thinks_left - 1
    /\ \E response \in Responses :
          /\ NumPublish(response) <= tags_left
          /\ Len(OfKind(response, "SPAWN")) <= spawns_left
          /\ tags_left' = tags_left - NumPublish(response)
          /\ spawns_left' = spawns_left - Len(OfKind(response, "SPAWN"))
          /\ actions' = [actions EXCEPT ![a] = ParseActions(response)]
          /\ pc' = [pc EXCEPT ![a] = Resume(ParseActions(response), alive[a])]
    /\ context_history' = [context_history EXCEPT ![a] = think_append(@)]
    /\ UNCHANGED << bus_vars, mgr_vars, wfc_vars, parse_vars, api_call, alive, parent_id, children_ids, inbox,
                    pc_mon, mon_req, pub_vars, get_vars, clock, next_id,
                    hist_vars >>

\* a think that records the prompt before it makes the generation call
ThinkFails_PromptKept(a) ==
    /\ pc[a] = "think"
    /\ pc' = [pc EXCEPT ![a] = "crashed"]
    /\ context_history' = [context_history EXCEPT ![a] = Append(@, "user")]
    /\ UNCHANGED << bus_vars, mgr_vars, wfc_vars, parse_vars, api_call, alive, parent_id,
                    children_ids, inbox, pc_mon, mon_req, actions, pub_vars,
                    get_vars, env_vars, hist_vars >>

\* think, line 172: the generation call raises; run (lines 477-487) catches
\* the exception and the thread ends
ThinkFails(a) ==
    /\ pc[a] = "think"
    /\ pc' = [pc EXCEPT ![a] = "crashed"]
    /\ UNCHANGED << bus_vars, mgr_vars, wfc_vars, parse_vars, api_call, obj_vars, pc_mon, mon_req, actions,
                    pub_vars, get_vars, env_vars, hist_vars >>

NextAction(a, k) ==
    /\ pc[a] = "exec"
    /\ actions[a] # << >>
    /\ Head(actions[a]).kind = k
    /\ actions' = [actions EXCEPT ![a] = Tail(@)]

\* a spawn that does not record the child's id
Spawn_NoAppend(a) ==
    /\ NextAction(a, "SPAWN")
    /\ manager_queue' = Append(manager_queue,
                               [type |-> "spawn", id |-> next_id, parent |-> a])
    /\ next_id' = next_id + 1
    /\ pc' = [pc EXCEPT ![a] = Resume(Tail(actions[a]), alive[a])]
    /\ UNCHANGED << bus_vars, agents, threads, units, running, total_agents_created,
                    total_agents_died, wfc_vars, parse_vars, api_call, obj_vars, pc_mon, mon_req, pub_vars,
                    get_vars, clock, tags_left, spawns_left, thinks_left,
                    hist_vars >>

\* a spawn in which the worker builds and registers the child itself
Spawn_Direct(a) ==
    /\ NextAction(a, "SPAWN")
    /\ alive' = (next_id :> TRUE) @@ alive
    /\ parent_id' = (next_id :> a) @@ parent_id
    /\ children_ids' = (next_id :> << >>)
                       @@ [children_ids EXCEPT ![a] = Append(@, next_id)]
    /\ inbox' = (next_id :> << >>) @@ inbox
    /\ context_history' = (next_id :> << >>) @@ context_history
    /\ BusRegister(next_id)
    /\ agents' = agents \cup {next_id}
    /\ threads' = threads \cup {next_id}
    /\ units' = [units EXCEPT ![next_id] = @ + 1]
    /\ total_agents_created' = total_agents_created + 1
    /\ pc' = [pc EXCEPT ![a] = Resume(Tail(actions[a]), alive[a]),
                        ![next_id] = "check"]
    /\ next_id' = next_id + 1
    /\ UNCHANGED << message_history, lock, running, manager_queue,
                    total_agents_died, wfc_vars, parse_vars, api_call, pc_mon, mon_req,
                    pub_vars, get_vars, clock, tags_left, spawns_left,
                    thinks_left, hist_vars >>

\* spawn, lines 216-237: the child's id is drawn and recorded, the request
\* goes to the control queue
Spawn(a) ==
    /\ NextAction(a, "SPAWN")
    /\ children_ids' = [children_ids EXCEPT ![a] = Append(@, next_id)]
    /\ manager_queue' = Append(manager_queue,
                               [type |-> "spawn", id |-> next_id, parent |-> a])
    /\ next_id' = next_id + 1
    /\ pc' = [pc EXCEPT ![a] = Resume(Tail(actions[a]), alive[a])]
    /\ UNCHANGED << bus_vars, agents, threads, units, running, total_agents_created,
                    total_agents_died, wfc_vars, parse_vars, api_call, alive, parent_id, inbox, context_history,
                    pc_mon, mon_req, pub_vars, get_vars, clock, tags_left,
                    spawns_left, thinks_left, hist_vars >>

\* broadcast (lines 274-293) and message (lines 295-312) up to the call of
\* publish_sync
StartPublish(t, to) ==
    /\ msg' = [msg EXCEPT ![t] = Message(t, to, clock + 1)]
    /\ clock' = clock + 1
    /\ passed' = Append(passed, Message(t, to, clock + 1))
    /\ late' = IF to \in DOMAIN alive /\ ~alive[to]
               THEN late \cup {Message(t, to, clock + 1)} ELSE late
    /\ pc' = [pc EXCEPT ![t] = "pub_hist"]

Broadcast(a) ==
    /\ NextAction(a, "BROADCAST")
    /\ StartPublish(a, BROADCAST)
    /\ UNCHANGED << bus_vars, mgr_vars, wfc_vars, parse_vars, api_call, obj_vars, pc_mon, mon_req, snap, fan_i,
                    get_vars, next_id, tags_left, spawns_left, thinks_left,
                    failed >>

SendMessage(a) ==
    /\ NextAction(a, "MESSAGE")
    /\ StartPublish(a, Head(actions[a]).target)
    /\ UNCHANGED << bus_vars, mgr_vars, wfc_vars, parse_vars, api_call, obj_vars, pc_mon, mon_req, snap, fan_i,
                    get_vars, next_id, tags_left, spawns_left, thinks_left,
                    failed >>

\* _execute_single_action, lines 204-206: wait_for_messages is called with
\* the number of the tag, whatever it is; the WAIT stays the action at hand
\* until the call returns
Wait(a) ==
    /\ pc[a] = "exec"
    /\ actions[a] # << >>
    /\ Head(actions[a]).kind = "WAIT"
    /\ Head(actions[a]).target \in WaitArgs
    /\ WaitLookup(a)
    /\ UNCHANGED << bus_vars, mgr_vars, wfc_vars, parse_vars, api_call, obj_vars,
                    pc_mon, mon_req, actions, pub_vars, got, env_vars,
                    hist_vars >>

\* a terminate without the test of alive
terminate_NoGuard(a) ==
    /\ alive' = [alive EXCEPT ![a] = FALSE]
    /\ manager_queue' = Append(manager_queue,
            [type |-> "terminate", id |-> a, parent |-> NoParent])

\* terminate, lines 255-268
terminate(a) ==
    IF ~alive[a]
    THEN UNCHANGED << alive, manager_queue >>
    ELSE /\ alive' = [alive EXCEPT ![a] = FALSE]
         /\ manager_queue' = Append(manager_queue,
                 [type |-> "terminate", id |-> a, parent |-> NoParent])

Terminate(a) ==
    /\ NextAction(a, "TERMINATE")
    /\ terminate(a)
    /\ pc' = [pc EXCEPT ![a] = Resume(Tail(actions[a]), alive'[a])]
    /\ UNCHANGED << bus_vars, agents, threads, units, running, total_agents_created,
                    total_agents_died, wfc_vars, parse_vars, api_call, parent_id, children_ids, inbox, context_history,
                    pc_mon, mon_req, pub_vars, get_vars, env_vars,
                    hist_vars >>

\* ----------------------------------------------------------- AgentManager
\* a register_agent that never starts a thread
ManagerRegister_NoThread(id) ==
    /\ agents' = agents \cup {id}
    /\ threads' = threads
    /\ units' = units
    /\ pc' = pc
    /\ total_agents_created' = total_agents_created + 1

\* register_agent, lines 51-67: the Registry entry, the thread if the
\* manager runs, the counter
ManagerRegister(id) ==
    /\ agents' = agents \cup {id}
    /\ threads' = IF running THEN threads \cup {id} ELSE threads
    /\ units' = IF running THEN [units EXCEPT ![id] = @ + 1] ELSE units
    /\ pc' = IF running THEN [pc EXCEPT ![id] = "check"] ELSE pc
    /\ total_agents_created' = total_agents_created + 1

\* create_genesis_agent, lines 144-152, called before start: no other
\* thread runs yet
CreateGenesis ==
    /\ pc[MANAGER] = "new"
    /\ NewAgent(GENESIS, NoParent)
    /\ BusRegister(GENESIS)
    /\ agents' = agents \cup {GENESIS}
    /\ total_agents_created' = total_agents_created + 1
    /\ pc' = [pc EXCEPT ![MANAGER] = "created"]
    /\ UNCHANGED << message_history, lock, threads, units, running, manager_queue,
                    total_agents_died, wfc_vars, parse_vars, api_call, pc_mon, mon_req, actions, pub_vars,
                    get_vars, env_vars, hist_vars >>

\* start, lines 154-171: the monitor thread and one thread per agent of
\* the Registry
Start ==
    /\ pc[MANAGER] = "created"
    /\ running' = TRUE
    /\ pc_mon' = "loop"
    /\ threads' = threads \cup agents
    /\ units' = [a \in Ids |-> IF a \in agents THEN units[a] + 1 ELSE units[a]]
    /\ pc' = [t \in DOMAIN pc |->
                 IF t = MANAGER THEN "started"
                 ELSE IF t \in agents THEN "check" ELSE pc[t]]
    /\ UNCHANGED << bus_vars, agents, manager_queue, total_agents_created,
                    total_agents_died, wfc_vars, parse_vars, api_call, obj_vars, mon_req, actions, pub_vars,
                    get_vars, env_vars, hist_vars >>

\* stop, lines 205-214: the flag, then the shutdown notice is published
Stop ==
    /\ pc[MANAGER] = "started"
    /\ running' = FALSE
    /\ StartPublish(MANAGER, BROADCAST)
    /\ UNCHANGED << bus_vars, agents, threads, units, manager_queue,
                    total_agents_created, total_agents_died, wfc_vars, parse_vars, api_call, obj_vars, pc_mon,
                    mon_req, actions, snap, fan_i, get_vars, next_id, tags_left,
                    spawns_left, thinks_left, failed >>

\* stop, lines 217-228: the sleep and the joins, each with a timeout
StopJoin ==
    /\ pc[MANAGER] = "stop_wait"
    /\ pc' = [pc EXCEPT ![MANAGER] = "stopped"]
    /\ UNCHANGED << bus_vars, mgr_vars, wfc_vars, parse_vars, api_call, obj_vars, pc_mon, mon_req, actions,
                    pub_vars, get_vars, env_vars, hist_vars >>

\* no work_cycle entered yet, no get_active_agents call under way
NotListing == [cycle_count |-> 0, reading |-> FALSE, seen |-> {}]

NoReq == [type |-> "none", id |-> NoParent, parent |-> NoParent]

\* monitor, line 175: the loop test
MonitorLoop ==
    /\ pc_mon = "loop"
    /\ pc_mon' = IF running THEN "get" ELSE "exited"
    /\ UNCHANGED << bus_vars, mgr_vars, wfc_vars, parse_vars, api_call, obj_vars, pc, mon_req, actions,
                    pub_vars, get_vars, env_vars, hist_vars >>

\* monitor, lines 175-177 and 198-199: get(timeout=0.1) finds the queue
\* empty and the loop test fails (while the manager runs, the monitor is
\* back in get with nothing changed)
MonitorTimeout ==
    /\ pc_mon = "get"
    /\ manager_queue = << >>
    /\ ~running
    /\ pc_mon' = "exited"
    /\ UNCHANGED << bus_vars, mgr_vars, wfc_vars, parse_vars, api_call, obj_vars, pc, mon_req, actions,
                    pub_vars, get_vars, env_vars, hist_vars >>

\* monitor, lines 179-190: a spawn request; the child object is built by
\* from_spawn_data (agent.py lines 100-109)
MonitorSpawn ==
    /\ pc_mon = "get"
    /\ manager_queue # << >>
    /\ Head(manager_queue).type = "spawn"
    /\ manager_queue' = Tail(manager_queue)
    /\ mon_req' = Head(manager_queue)
    /\ NewAgent(Head(manager_queue).id, Head(manager_queue).parent)
    /\ pc_mon' = "reg_bus"
    /\ UNCHANGED << bus_vars, agents, threads, units, running, total_agents_created,
                    total_agents_died, wfc_vars, parse_vars, api_call, pc, actions, pub_vars, get_vars,
                    env_vars, hist_vars >>

\* a register_agent that leaves the bus out
MonitorRegisterBus_Skip ==
    /\ pc_mon = "reg_bus"
    /\ pc_mon' = "reg_mgr"
    /\ UNCHANGED << bus_vars, mgr_vars, wfc_vars, parse_vars, api_call,
                    obj_vars, pc, mon_req, actions, pub_vars, get_vars,
                    env_vars, hist_vars >>

\* register_agent, line 48: the bus registers the child under its lock
MonitorRegisterBus ==
    /\ pc_mon = "reg_bus"
    /\ ~lock
    /\ BusRegister(mon_req.id)
    /\ pc_mon' = "reg_mgr"
    /\ UNCHANGED << message_history, lock, mgr_vars, wfc_vars, parse_vars, api_call, obj_vars, pc, mon_req,
                    actions, pub_vars, get_vars, env_vars, hist_vars >>

\* register_agent, lines 51-67
MonitorRegisterAgent ==
    /\ pc_mon = "reg_mgr"
    /\ ManagerRegister(mon_req.id)
    /\ pc_mon' = "loop"
    /\ mon_req' = NoReq
    /\ UNCHANGED << bus_vars, running, manager_queue, total_agents_died, wfc_vars, parse_vars, api_call,
                    obj_vars, actions, pub_vars, get_vars, env_vars,
                    hist_vars >>

\* monitor, lines 193-196, and unregister_agent, line 72: a terminate
\* request; nothing is done for an id that is not in the Registry
MonitorTerminate ==
    /\ pc_mon = "get"
    /\ manager_queue # << >>
    /\ Head(manager_queue).type = "terminate"
    /\ manager_queue' = Tail(manager_queue)
    /\ IF Head(manager_queue).id \in agents
       THEN /\ mon_req' = Head(manager_queue)
            /\ pc_mon' = "unreg_sum"
       ELSE /\ mon_req' = NoReq
            /\ pc_mon' = "loop"
    /\ UNCHANGED << bus_vars, agents, threads, units, running, total_agents_created,
                    total_agents_died, wfc_vars, parse_vars, api_call, obj_vars, pc, actions, pub_vars,
                    get_vars, env_vars, hist_vars >>

\* unregister_agent, line 74, and update_agent_summary, lines 98-132: the
\* summary is skipped for a short history, or the generation call returns
MonitorSummary ==
    /\ pc_mon = "unreg_sum"
    /\ pc_mon' = "unreg_bus"
    /\ UNCHANGED << bus_vars, mgr_vars, wfc_vars, parse_vars, api_call, obj_vars, pc, mon_req, actions,
                    pub_vars, get_vars, env_vars, hist_vars >>

\* update_agent_summary, line 129: the generation call raises; the monitor
\* catches the exception (lines 200-201) and goes on with its loop
MonitorSummaryFails ==
    /\ pc_mon = "unreg_sum"
    /\ ctx_len[mon_req.id] >= SummaryMin
    /\ pc_mon' = "loop"
    /\ mon_req' = NoReq
    /\ UNCHANGED << bus_vars, mgr_vars, wfc_vars, parse_vars, api_call, obj_vars, pc, actions, pub_vars,
                    get_vars, env_vars, hist_vars >>

\* unregister_agent, lines 77-88, and the bus's unregister_agent, lines
\* 34-35: the thread entry goes, the bus lock is taken
MonitorUnregisterBus ==
    /\ pc_mon = "unreg_bus"
    /\ ~lock
    /\ threads' = threads \ {mon_req.id}
    /\ units' = units
    /\ IF Registered(mon_req.id)
       THEN /\ lock' = TRUE
            /\ pc_mon' = "unreg_drain"
       ELSE /\ lock' = lock
            /\ pc_mon' = "unreg_mgr"
    /\ UNCHANGED << agent_queues, mailbox, message_history, agents, running,
                    manager_queue, total_agents_created, total_agents_died, wfc_vars, parse_vars, api_call,
                    obj_vars, pc, mon_req, actions, pub_vars, get_vars,
                    env_vars, hist_vars >>

\* an unregister_agent of the bus that deletes the key and leaves the queue
\* as it is
MonitorUnregisterDrain_Keep ==
    /\ pc_mon = "unreg_drain"
    /\ agent_queues' = RemoveKey(agent_queues, mon_req.id)
    /\ lock' = FALSE
    /\ qref' = [qref EXCEPT ![mon_req.id] = IF @ = "cur" THEN "stale" ELSE @]
    /\ pc_mon' = "unreg_mgr"
    /\ UNCHANGED << mailbox, message_history, mgr_vars, wfc_vars, parse_vars,
                    api_call, obj_vars, pc, mon_req, actions, pub_vars, got,
                    env_vars, hist_vars >>

\* an unregister_agent of the bus that deletes the key and returns with the
\* lock still held
MonitorUnregisterDrain_HoldsLock ==
    /\ pc_mon = "unreg_drain"
    /\ agent_queues' = RemoveKey(agent_queues, mon_req.id)
    /\ mailbox' = [mailbox EXCEPT ![mon_req.id] = << >>]
    /\ qref' = [qref EXCEPT ![mon_req.id] = IF @ = "cur" THEN "stale" ELSE @]
    /\ pc_mon' = "unreg_mgr"
    /\ UNCHANGED << lock, message_history, mgr_vars, wfc_vars, parse_vars,
                    api_call, obj_vars, pc, mon_req, actions, pub_vars, got,
                    env_vars, hist_vars >>

\* the bus's unregister_agent, lines 37-43: one get_nowait of the drain, or
\* the key is deleted and the lock released.  A thread that still holds the
\* queue object holds a queue nobody writes to any more.
MonitorUnregisterDrain ==
    /\ pc_mon = "unreg_drain"
    /\ IF mailbox[mon_req.id] # << >>
       THEN /\ mailbox' = [mailbox EXCEPT ![mon_req.id] = Tail(@)]
            /\ UNCHANGED << agent_queues, lock, qref, pc_mon >>
       ELSE /\ agent_queues' = RemoveKey(agent_queues, mon_req.id)
            /\ lock' = FALSE
            /\ qref' = [qref EXCEPT ![mon_req.id] =
                            IF @ = "cur" THEN "stale" ELSE @]
            /\ pc_mon' = "unreg_mgr"
            /\ mailbox' = mailbox
    /\ UNCHANGED << message_history, mgr_vars, wfc_vars, parse_vars, api_call, obj_vars, pc, mon_req, actions,
                    pub_vars, got, env_vars, hist_vars >>

\* unregister_agent, lines 89-92
MonitorUnregisterAgent ==
    /\ pc_mon = "unreg_mgr"
    /\ agents' = agents \ {mon_req.id}
    /\ total_agents_died' = total_agents_died + 1
    /\ pc_mon' = "loop"
    /\ mon_req' = NoReq
    /\ UNCHANGED << bus_vars, threads, units, running, manager_queue,
                    total_agents_created, obj_vars, pc, actions, pub_vars,
                    get_vars, env_vars, hist_vars, wfc_vars, parse_vars, api_call >>

\* ------------------------------------------------------- get_agent_tree
\* a test that takes every agent of the Registry for a root
IsRoot_Any(a) == TRUE

\* get_agent_tree, line 239: agent.parent_id is None
IsRoot(a) == parent_id[a] = NoParent

\* a build_subtree that enters every child of the Registry twice
RegisteredChildren_Doubled(a) ==
    SelectSeq(children_ids[a] \o children_ids[a], LAMBDA c : c \in agents)

\* get_agent_tree, lines 252-255: the children that are in the Registry, in
\* the order of children_ids
RegisteredChildren(a) == SelectSeq(children_ids[a], LAMBDA c : c \in agents)

\* build_subtree, lines 241-257
RECURSIVE build_subtree(_)
build_subtree(a) ==
    [id |-> a,
     alive |-> alive[a],
     children |-> [i \in DOMAIN RegisteredChildren(a) |->
                      build_subtree(RegisteredChildren(a)[i])]]

\* get_agent_tree, lines 234-261: the dict the call returns when it runs
\* with no other thread in between
get_agent_tree ==
    [r \in { a \in agents : IsRoot(a) } |-> build_subtree(r)]

\* ------------------------------------------------- wait_for_convergence
\* the timeouts a caller passes: None, 0 and 1 second
Timeouts == {NoTimeout, 0, 1}

\* get_active_agents (manager.py lines 230-232)
get_active_agents == { a \in agents : alive[a] }

\* the truth value Python gives the argument in "if timeout and ..."
Truthy(t) == t # NoTimeout /\ t # 0

\* timedelta.seconds of a span given in half seconds
Seconds(e) == e \div 2

\* the test "timeout and (datetime.now() - start).seconds > timeout"
TimedOut(t, e) == Truthy(t) /\ Seconds(e) > t

\* start = datetime.now() (line 284)
WfcCall ==
    /\ pc[MANAGER] = "started"
    /\ wfc_pc = "idle"
    /\ \E t \in Timeouts : timeout' = t
    /\ elapsed' = 0
    /\ wfc_pc' = "check_active"
    /\ UNCHANGED << bus_vars, mgr_vars, obj_vars, pc, pc_mon, mon_req, actions,
                    pub_vars, get_vars, env_vars, hist_vars, listing, parse_vars, api_call >>

\* if not self.get_active_agents(): return True (lines 288-290)
WfcCheckActive ==
    /\ wfc_pc = "check_active"
    /\ wfc_pc' = IF get_active_agents = {} THEN "True" ELSE "check_timeout"
    /\ UNCHANGED << bus_vars, mgr_vars, obj_vars, pc, pc_mon, mon_req, actions,
                    pub_vars, get_vars, env_vars, hist_vars, listing, timeout, elapsed,
                    parse_vars, api_call >>

\* if timeout and ... > timeout: return False (lines 293-295)
WfcCheckTimeout ==
    /\ wfc_pc = "check_timeout"
    /\ wfc_pc' = IF TimedOut(timeout, elapsed) THEN "False" ELSE "sleep"
    /\ UNCHANGED << bus_vars, mgr_vars, obj_vars, pc, pc_mon, mon_req, actions,
                    pub_vars, get_vars, env_vars, hist_vars, listing, timeout, elapsed,
                    parse_vars, api_call >>

\* time.sleep(0.5) (line 297): at least half a second passes
WfcSleep ==
    /\ wfc_pc = "sleep"
    /\ \E d \in 1 .. MaxSleep :
           elapsed' = IF elapsed + d > MaxElapsed THEN MaxElapsed ELSE elapsed + d
    /\ wfc_pc' = "check_active"
    /\ UNCHANGED << bus_vars, mgr_vars, obj_vars, pc, pc_mon, mon_req, actions,
                    pub_vars, get_vars, env_vars, hist_vars, listing, timeout, parse_vars, api_call >>

WfcStep == WfcCall \/ WfcCheckActive \/ WfcCheckTimeout \/ WfcSleep

\* ---------------------------------------------------------- specification
\* AgentManager.__init__ (lines 13-38) and MessageBus.__init__ (lines 13-22)
Init ==
    /\ agent_queues = << >>
    /\ mailbox = [id \in Ids |-> << >>]
    /\ message_history = << >>
    /\ lock = FALSE
    /\ agents = {}
    /\ threads = {}
    /\ units = [a \in Ids |-> 0]
    /\ running = FALSE
    /\ manager_queue = << >>
    /\ total_agents_created = 0
    /\ total_agents_died = 0
    /\ alive = [id \in {} |-> TRUE]
    /\ parent_id = [id \in {} |-> NoParent]
    /\ children_ids = [id \in {} |-> << >>]
    /\ inbox = [id \in {} |-> << >>]
    /\ context_history = [id \in {} |-> << >>]
    /\ pc = [t \in Publishers |-> IF t = MANAGER THEN "new" ELSE "unstarted"]
    /\ pc_mon = "off"
    /\ mon_req = NoReq
    /\ actions = [id \in Ids |-> << >>]
    /\ msg = [t \in Publishers |-> NoMsg]
    /\ snap = [t \in Publishers |-> << >>]
    /\ fan_i = [t \in Publishers |-> 0]
    /\ got = [id \in Ids |-> << >>]
    /\ qref = [id \in Ids |-> "none"]
    /\ clock = 0
    /\ next_id = GENESIS + 1
    /\ tags_left = MaxPub
    /\ spawns_left = MaxSpawn
    /\ thinks_left = MaxThinks
    /\ passed = << >>
    /\ failed = {}
    /\ late = {}
    /\ wfc_pc = "idle"
    /\ timeout = NoTimeout
    /\ elapsed = 0
    /\ listing = [a \in Ids |-> NotListing]
    /\ resp_text = << >>
    /\ oplist = << >>
    /\ executed = << >>
    /\ parse_pc = "off"
    /\ self_alive = TRUE
    /\ tool_updates = << >>
    /\ api_call = NoCall

AgentStep(a) ==
    \/ CheckMessages(a) \/ Drain(a) \/ Think(a) \/ ThinkFails(a)
    \/ Spawn(a) \/ Broadcast(a) \/ SendMessage(a)
    \/ Wait(a) \/ WaitGet(a) \/ Terminate(a)

PublishStep(t) ==
    \/ PublishHistory(t) \/ PublishSnapshot(t) \/ PublishFanout(t)
    \/ PublishDirect(t) \/ PublishNotice(t)

MonitorStep ==
    \/ MonitorLoop \/ MonitorSpawn \/ MonitorRegisterBus
    \/ MonitorRegisterAgent \/ MonitorTerminate \/ MonitorSummary
    \/ MonitorSummaryFails \/ MonitorUnregisterBus \/ MonitorUnregisterDrain
    \/ MonitorUnregisterAgent

MainStep == CreateGenesis \/ Start

Next ==
    \/ MainStep
    \/ MonitorStep
    \/ \E a \in Ids : AgentStep(a)
    \/ \E t \in Publishers : PublishStep(t)

Spec == Init /\ [][Next]_vars

\* the program from construction, with stop() called at any moment after
\* start()
InitStop ==
    /\ agent_queues = << >>
    /\ mailbox = [id \in Ids |-> << >>]
    /\ message_history = << >>
    /\ lock = FALSE
    /\ agents = {}
    /\ threads = {}
    /\ units = [a \in Ids |-> 0]
    /\ running = FALSE
    /\ manager_queue = << >>
    /\ total_agents_created = 0
    /\ total_agents_died = 0
    /\ alive = [id \in {} |-> TRUE]
    /\ parent_id = [id \in {} |-> NoParent]
    /\ children_ids = [id \in {} |-> << >>]
    /\ inbox = [id \in {} |-> << >>]
    /\ context_history = [id \in {} |-> << >>]
    /\ pc = [t \in Publishers |-> IF t = MANAGER THEN "new" ELSE "unstarted"]
    /\ pc_mon = "off"
    /\ mon_req = NoReq
    /\ actions = [id \in Ids |-> << >>]
    /\ msg = [t \in Publishers |-> NoMsg]
    /\ snap = [t \in Publishers |-> << >>]
    /\ fan_i = [t \in Publishers |-> 0]
    /\ got = [id \in Ids |-> << >>]
    /\ qref = [id \in Ids |-> "none"]
    /\ clock = 0
    /\ next_id = GENESIS + 1
    /\ tags_left = StopPub
    /\ spawns_left = StopSpawn
    /\ thinks_left = StopThinks
    /\ passed = << >>
    /\ failed = {}
    /\ late = {}
    /\ wfc_pc = "idle"
    /\ timeout = NoTimeout
    /\ elapsed = 0
    /\ listing = [a \in Ids |-> NotListing]
    /\ resp_text = << >>
    /\ oplist = << >>
    /\ executed = << >>
    /\ parse_pc = "off"
    /\ self_alive = TRUE
    /\ tool_updates = << >>
    /\ api_call = NoCall

NextStop ==
    \/ MainStep \/ Stop \/ StopJoin
    \/ MonitorStep \/ MonitorTimeout
    \/ \E a \in Ids : AgentStep(a)
    \/ \E t \in Publishers : PublishStep(t)

SpecStop == InitStop /\ [][NextStop]_vars

\* the state after construction, with the given numbers of publishes,
\* spawns and generation calls left
Constructed(tags, spawns, thinks) ==
    /\ agent_queues = << >>
    /\ mailbox = [id \in Ids |-> << >>]
    /\ message_history = << >>
    /\ lock = FALSE
    /\ agents = {}
    /\ threads = {}
    /\ units = [a \in Ids |-> 0]
    /\ running = FALSE
    /\ manager_queue = << >>
    /\ total_agents_created = 0
    /\ total_agents_died = 0
    /\ alive = [id \in {} |-> TRUE]
    /\ parent_id = [id \in {} |-> NoParent]
    /\ children_ids = [id \in {} |-> << >>]
    /\ inbox = [id \in {} |-> << >>]
    /\ context_history = [id \in {} |-> << >>]
    /\ pc = [t \in Publishers |-> IF t = MANAGER THEN "new" ELSE "unstarted"]
    /\ pc_mon = "off"
    /\ mon_req = NoReq
    /\ actions = [id \in Ids |-> << >>]
    /\ msg = [t \in Publishers |-> NoMsg]
    /\ snap = [t \in Publishers |-> << >>]
    /\ fan_i = [t \in Publishers |-> 0]
    /\ got = [id \in Ids |-> << >>]
    /\ qref = [id \in Ids |-> "none"]
    /\ clock = 0
    /\ next_id = GENESIS + 1
    /\ tags_left = tags
    /\ spawns_left = spawns
    /\ thinks_left = thinks
    /\ passed = << >>
    /\ failed = {}
    /\ late = {}
    /\ wfc_pc = "idle"
    /\ timeout = NoTimeout
    /\ elapsed = 0
    /\ listing = [a \in Ids |-> NotListing]

\* no call of execute_actions is looked at alone
NoParse ==
    /\ resp_text = << >>
    /\ oplist = << >>
    /\ executed = << >>
    /\ parse_pc = "off"
    /\ self_alive = TRUE
    /\ tool_updates = << >>
    /\ api_call = NoCall

\* a herd whose agents send no messages, and a caller of
\* wait_for_convergence after start()
InitWfc == Constructed(0, WfcSpawn, WfcThinks) /\ NoParse

AgentStepQuiet(a) ==
    \/ CheckMessages(a) \/ Drain(a) \/ Think(a) \/ ThinkFails(a)
    \/ Spawn(a) \/ Wait(a) \/ Terminate(a)

NextWfc ==
    \/ MainStep
    \/ MonitorStep
    \/ \E a \in Ids : AgentStepQuiet(a)
    \/ WfcStep

SpecWfc == InitWfc /\ [][NextWfc]_vars

\* --------------------------------------------- execute_actions, taken alone
ToolKinds == Kinds \o <<"TOOL">>

\* the tags a text may hold, each with the argument that tells it from
\* another tag of its kind
TextTags == { Tag(ToolKinds[i], n) : i \in DOMAIN ToolKinds, n \in 1 .. MaxArg }

TextResponses == UNION { [1..n -> TextTags] : n \in 0..MaxText }

\* ToolAgent._parse_agent_actions (tool_agent.py lines 65-77): the base
\* actions, then one scan for TOOL
ToolParseActions(response) == ParseActions(response) \o OfKind(response, "TOOL")

\* the response of one generation call, given to an Agent or a ToolAgent
InitParse ==
    /\ Constructed(0, 0, 0)
    /\ resp_text \in TextResponses
    /\ oplist = << >>
    /\ executed = << >>
    /\ parse_pc \in {"parse", "parse_tool"}
    /\ self_alive = TRUE
    /\ tool_updates = << >>
    /\ api_call = NoCall

\* execute_actions, line 185: actions = self._parse_agent_actions(response)
ExecuteActionsParse ==
    /\ parse_pc \in {"parse", "parse_tool"}
    /\ oplist' = IF parse_pc = "parse_tool" THEN ToolParseActions(resp_text)
                                           ELSE ParseActions(resp_text)
    /\ parse_pc' = IF parse_pc = "parse_tool" THEN "run_tool" ELSE "run"
    /\ UNCHANGED << bus_vars, mgr_vars, wfc_vars, obj_vars, pc, pc_mon, mon_req,
                    actions, pub_vars, get_vars, env_vars, hist_vars,
                    resp_text, executed, self_alive, tool_updates, api_call >>

\* the names in the dict tools of the ToolAgent
tools == {1}

\* add_tool_update (agent.py lines 338-346)
add_tool_update(tool_name, status) ==
    tool_updates' = Append(tool_updates, [tool |-> tool_name, status |-> status])

\* an execute_tool that lets the exception of a tool pass
execute_tool_Uncaught(tool_name) ==
    IF tool_name \notin tools
    THEN add_tool_update(tool_name, "error") /\ parse_pc' = parse_pc
    ELSE \/ add_tool_update(tool_name, "success") /\ parse_pc' = parse_pc
         \/ tool_updates' = tool_updates /\ parse_pc' = "crashed"

\* execute_tool (tool_agent.py lines 89-104): the name is looked up, the
\* tool is called and returns or raises, and the call returns normally
execute_tool(tool_name) ==
    IF tool_name \notin tools
    THEN add_tool_update(tool_name, "error") /\ parse_pc' = parse_pc
    ELSE \E raised \in BOOLEAN :
            /\ add_tool_update(tool_name, IF raised THEN "error" ELSE "success")
            /\ parse_pc' = parse_pc

\* execute_actions, lines 187-188: one turn of the loop over actions, with
\* _execute_single_action as far as it touches the agent itself: TOOL
\* (tool_agent.py lines 79-83) and TERMINATE (agent.py lines 257-260)
ExecuteActionsNext ==
    /\ parse_pc \in {"run", "run_tool"}
    /\ oplist # << >>
    /\ executed' = Append(executed, Head(oplist))
    /\ oplist' = Tail(oplist)
    /\ IF Head(oplist).kind = "TOOL"
       THEN /\ execute_tool(Head(oplist).target)
            /\ self_alive' = self_alive
       ELSE /\ self_alive' = IF Head(oplist).kind = "TERMINATE" THEN FALSE
                                                                ELSE self_alive
            /\ UNCHANGED << parse_pc, tool_updates >>
    /\ UNCHANGED << bus_vars, mgr_vars, wfc_vars, obj_vars, pc, pc_mon, mon_req,
                    actions, pub_vars, get_vars, env_vars, hist_vars,
                    resp_text, api_call >>

\* execute_actions returns
ExecuteActionsReturn ==
    /\ parse_pc \in {"run", "run_tool"}
    /\ oplist = << >>
    /\ parse_pc' = IF parse_pc = "run_tool" THEN "done_tool" ELSE "done"
    /\ UNCHANGED << bus_vars, mgr_vars, wfc_vars, obj_vars, pc, pc_mon, mon_req,
                    actions, pub_vars, get_vars, env_vars, hist_vars,
                    resp_text, oplist, executed, self_alive, tool_updates,
                    api_call >>

NextParse == ExecuteActionsParse \/ ExecuteActionsNext \/ ExecuteActionsReturn

SpecParse == InitParse /\ [][NextParse]_vars

\* ------------------------------------- the public methods, called in turn
\* One caller uses the manager and the bus before start(): no agent thread
\* and no monitor runs, so every call runs from its first line to its last
\* with nothing in between.
Called(op, id) == api_call' = [op |-> op, id |-> id, n |-> api_call.n + 1]

ApiReady == pc[MANAGER] = "created" /\ api_call.n < MaxCalls

\* an unregister_agent without the test of line 72
unregister_agent_NoGuard(agent_id) ==
    /\ threads' = threads \ {agent_id}
    /\ units' = units
    /\ agent_queues' = RemoveKey(agent_queues, agent_id)
    /\ mailbox' = [mailbox EXCEPT ![agent_id] = << >>]
    /\ agents' = agents \ {agent_id}
    /\ total_agents_died' = total_agents_died + 1

\* AgentManager.unregister_agent (manager.py lines 70-92) with
\* MessageBus.unregister_agent (message_bus.py lines 32-45), as one call;
\* the transcript of the agent is too short for a final summary
unregister_agent(agent_id) ==
    IF agent_id \in agents
    THEN /\ threads' = threads \ {agent_id}
         /\ units' = units
         /\ agent_queues' = RemoveKey(agent_queues, agent_id)
         /\ mailbox' = IF Registered(agent_id)
                       THEN [mailbox EXCEPT ![agent_id] = << >>]
                       ELSE mailbox
         /\ agents' = agents \ {agent_id}
         /\ total_agents_died' = total_agents_died + 1
    ELSE UNCHANGED << threads, units, agent_queues, mailbox, agents, total_agents_died >>

\* manager.register_agent(agent) for a new Agent object (manager.py lines
\* 40-68), while the manager does not run
ApiRegisterAgent ==
    /\ ApiReady
    /\ next_id + spawns_left <= MaxSpawn
    /\ ~running
    /\ NewAgent(next_id, NoParent)
    /\ BusRegister(next_id)
    /\ agents' = agents \cup {next_id}
    /\ total_agents_created' = total_agents_created + 1
    /\ next_id' = next_id + 1
    /\ Called("register", next_id)
    /\ UNCHANGED << message_history, lock, threads, units, running, manager_queue,
                    total_agents_died, wfc_vars, parse_vars, pc, pc_mon, mon_req,
                    actions, pub_vars, get_vars, clock, tags_left, spawns_left,
                    thinks_left, hist_vars >>

\* manager.unregister_agent(agent_id) for any id
ApiUnregisterAgent ==
    /\ ApiReady
    /\ \E id \in Ids :
          /\ unregister_agent(id)
          /\ Called("unregister", id)
    /\ UNCHANGED << message_history, lock, running, manager_queue,
                    total_agents_created, wfc_vars, parse_vars, obj_vars, pc,
                    pc_mon, mon_req, actions, pub_vars, get_vars, env_vars,
                    hist_vars >>

\* message_bus.register_agent(agent_id) for any id (message_bus.py lines
\* 24-30)
ApiBusRegister ==
    /\ ApiReady
    /\ \E id \in Ids :
          /\ BusRegister(id)
          /\ Called("bus_register", id)
    /\ UNCHANGED << message_history, lock, mgr_vars, wfc_vars, parse_vars,
                    obj_vars, pc, pc_mon, mon_req, actions, pub_vars, get_vars,
                    env_vars, hist_vars >>

\* message_bus.publish_sync of a direct message (message_bus.py lines
\* 47-82), from any id to any id
ApiPublish ==
    /\ ApiReady
    /\ tags_left > 0
    /\ tags_left' = tags_left - 1
    /\ \E f \in Ids, to \in Ids :
          LET m == Message(f, to, clock + 1)
          IN  /\ message_history' = HistoryAppend(message_history, m)
              /\ passed' = Append(passed, m)
              /\ IF CanDeliver(to)
                 THEN /\ mailbox' = deliver_to_agent(mailbox, to, m)
                      /\ clock' = clock + 1
                      /\ failed' = failed
                 ELSE /\ mailbox' = deliver_to_agent(mailbox, f,
                                                     FailureNotice(m, clock + 2))
                      /\ clock' = clock + 2
                      /\ failed' = failed \cup {m}
              /\ Called("publish", to)
    /\ UNCHANGED << agent_queues, lock, mgr_vars, wfc_vars, parse_vars,
                    obj_vars, pc, pc_mon, mon_req, actions, pub_vars, get_vars,
                    next_id, spawns_left, thinks_left, late >>

InitApi ==
    /\ Constructed(ApiPub, 0, 0)
    /\ NoParse

NextApi ==
    \/ CreateGenesis
    \/ ApiRegisterAgent \/ ApiUnregisterAgent \/ ApiBusRegister \/ ApiPublish

SpecApi == InitApi /\ [][NextApi]_vars

\* agents registered by a caller before start(), then a herd that sends no
\* messages
InitStart ==
    /\ Constructed(0, StartSpawn, StartThinks)
    /\ NoParse

NextStart ==
    \/ CreateGenesis \/ ApiRegisterAgent \/ Start
    \/ MonitorStep
    \/ \E a \in Ids : AgentStepQuiet(a)

SpecStart == InitStart /\ [][NextStart]_vars

\* ------------------------------------------ the cooperative realization
\* src/agent.py and src/agent_manager.py: every agent is a task of one
\* scheduler, and a step is what a task does from one await to the next.
\* Its bus (message_bus.py of the same directory) is not part of the
\* source tree; the three operations used here follow the specification.

\* MessageBus.register_agent: a new, empty mailbox for a new id
CoopBusRegister(id) ==
    /\ agent_queues' = IF Registered(id) THEN agent_queues
                       ELSE Append(agent_queues, id)
    /\ mailbox' = IF Registered(id) THEN mailbox
                  ELSE [mailbox EXCEPT ![id] = << >>]

\* MessageBus.unregister_agent: the mailbox and what it holds are gone
CoopBusUnregister(id) ==
    /\ agent_queues' = RemoveKey(agent_queues, id)
    /\ mailbox' = [mailbox EXCEPT ![id] = << >>]

\* MessageBus.get_messages: everything pending, in order
CoopGetMessages(id) == IF Registered(id) THEN mailbox[id] ELSE << >>

\* execute_actions, lines 174-191, and lifecycle, lines 291-305
CoopResume(rest, is_alive) ==
    IF rest # << >> THEN "c_exec"
    ELSE IF is_alive THEN "c_check" ELSE "c_exited"

\* _parse_agent_actions of src/agent.py, lines 112-141: no PRINT scan
CoopParseActions(response) ==
    OfKind(response, "SPAWN") \o OfKind(response, "BROADCAST")
    \o OfKind(response, "MESSAGE") \o OfKind(response, "WAIT")
    \o OfKind(response, "TERMINATE")

\* register_agent of src/agent_manager.py, lines 25-43
CoopRegister(id) ==
    /\ agents' = agents \cup {id}
    /\ CoopBusRegister(id)
    /\ threads' = IF running THEN threads \cup {id} ELSE threads
    /\ units' = IF running THEN [units EXCEPT ![id] = @ + 1] ELSE units
    /\ total_agents_created' = total_agents_created + 1

\* create_genesis_agent, lines 115-123
CoopCreateGenesis ==
    /\ pc[MANAGER] = "c_new"
    /\ NewAgent(GENESIS, NoParent)
    /\ CoopRegister(GENESIS)
    /\ pc' = [pc EXCEPT ![MANAGER] = "c_created"]
    /\ UNCHANGED << message_history, lock, running, manager_queue,
                    total_agents_died, wfc_vars, parse_vars, api_call, pc_mon, mon_req, actions, pub_vars,
                    get_vars, env_vars, hist_vars >>

\* start, lines 125-136: a task for every agent that has none
CoopStart ==
    /\ pc[MANAGER] = "c_created"
    /\ running' = TRUE
    /\ threads' = threads \cup agents
    /\ units' = [a \in Ids |-> IF a \in agents \ threads THEN units[a] + 1
                                 ELSE units[a]]
    /\ pc' = [t \in DOMAIN pc |->
                 IF t = MANAGER THEN "c_started"
                 ELSE IF t \in agents \ threads THEN "c_check" ELSE pc[t]]
    /\ UNCHANGED << bus_vars, agents, manager_queue, total_agents_created,
                    total_agents_died, wfc_vars, parse_vars, api_call, obj_vars, pc_mon, mon_req, actions,
                    pub_vars, get_vars, env_vars, hist_vars >>

\* check_messages of src/agent.py, lines 266-282
CoopCheck(a) ==
    /\ pc[a] = "c_check"
    /\ inbox' = [inbox EXCEPT ![a] = InboxExtend(@, CoopGetMessages(a))]
    /\ mailbox' = [mailbox EXCEPT ![a] = << >>]
    /\ pc' = [pc EXCEPT ![a] = "c_think"]
    /\ UNCHANGED << agent_queues, message_history, lock, mgr_vars, wfc_vars, parse_vars, api_call, alive,
                    parent_id, children_ids, context_history, pc_mon, mon_req,
                    actions, pub_vars, get_vars, env_vars, hist_vars >>

\* think, lines 143-168, and the parse of execute_actions, line 172; the
\* responses are those that publish nothing
CoopThink(a) ==
    /\ pc[a] = "c_think"
    /\ thinks_left > 0
    /\ thinks_left' = thinks_left - 1
    /\ \E response \in Responses :
          /\ NumPublish(response) = 0
          /\ Len(OfKind(response, "SPAWN")) <= spawns_left
          /\ spawns_left' = spawns_left - Len(OfKind(response, "SPAWN"))
          /\ actions' = [actions EXCEPT ![a] = CoopParseActions(response)]
          /\ pc' = [pc EXCEPT
                      ![a] = CoopResume(CoopParseActions(response), alive[a])]
    /\ context_history' = [context_history EXCEPT ![a] = think_append(@)]
    /\ UNCHANGED << bus_vars, mgr_vars, wfc_vars, parse_vars, api_call, alive, parent_id, children_ids, inbox,
                    pc_mon, mon_req, pub_vars, get_vars, clock, next_id,
                    tags_left, hist_vars >>

\* think, line 160: the generation call raises and the task ends
CoopThinkFails(a) ==
    /\ pc[a] = "c_think"
    /\ pc' = [pc EXCEPT ![a] = "c_crashed"]
    /\ UNCHANGED << bus_vars, mgr_vars, wfc_vars, parse_vars, api_call, obj_vars, pc_mon, mon_req, actions,
                    pub_vars, get_vars, env_vars, hist_vars >>

CoopNextAction(a, k) ==
    /\ pc[a] = "c_exec"
    /\ actions[a] # << >>
    /\ Head(actions[a]).kind = k
    /\ actions' = [actions EXCEPT ![a] = Tail(@)]

\* spawn, lines 195-201: the child object is made and its id recorded
CoopSpawn(a) ==
    /\ CoopNextAction(a, "SPAWN")
    /\ alive' = (next_id :> TRUE) @@ alive
    /\ parent_id' = (next_id :> a) @@ parent_id
    /\ children_ids' = (next_id :> << >>)
                       @@ [children_ids EXCEPT ![a] = Append(@, next_id)]
    /\ inbox' = (next_id :> << >>) @@ inbox
    /\ context_history' = (next_id :> << >>) @@ context_history
    /\ next_id' = next_id + 1
    /\ pc' = [pc EXCEPT ![a] = "c_spawn_reg"]
    /\ UNCHANGED << bus_vars, mgr_vars, wfc_vars, parse_vars, api_call, pc_mon, mon_req, pub_vars, get_vars,
                    clock, tags_left, spawns_left, thinks_left, hist_vars >>

\* spawn, lines 204-205: await self.manager.register_agent(child)
CoopSpawnRegister(a) ==
    /\ pc[a] = "c_spawn_reg"
    /\ LET child == children_ids[a][Len(children_ids[a])]
       IN  /\ CoopRegister(child)
           /\ pc' = [pc EXCEPT ![a] = CoopResume(actions[a], alive[a]),
                               ![child] = IF running THEN "c_check" ELSE @]
    /\ UNCHANGED << message_history, lock, running, manager_queue,
                    total_agents_died, wfc_vars, parse_vars, api_call, obj_vars, pc_mon, mon_req, actions,
                    pub_vars, get_vars, env_vars, hist_vars >>

\* execute_actions, line 188: await asyncio.sleep(int(action_data))
CoopWaitStart(a) ==
    /\ CoopNextAction(a, "WAIT")
    /\ pc' = [pc EXCEPT ![a] = "c_sleep"]
    /\ UNCHANGED << bus_vars, mgr_vars, wfc_vars, parse_vars, api_call, obj_vars, pc_mon, mon_req, pub_vars,
                    get_vars, env_vars, hist_vars >>

\* the sleep is over: the task goes on with what follows the WAIT
CoopWaitEnd(a) ==
    /\ pc[a] = "c_sleep"
    /\ pc' = [pc EXCEPT ![a] = CoopResume(actions[a], alive[a])]
    /\ UNCHANGED << bus_vars, mgr_vars, wfc_vars, parse_vars, api_call, obj_vars, pc_mon, mon_req, actions,
                    pub_vars, get_vars, env_vars, hist_vars >>

\* terminate, lines 209-218, with unregister_agent of the manager, lines
\* 45-63, which runs in the task of the agent itself
CoopTerminate(a) ==
    /\ CoopNextAction(a, "TERMINATE")
    /\ pc' = [pc EXCEPT ![a] = CoopResume(Tail(actions[a]), FALSE)]
    /\ IF alive[a] /\ a \in agents
       THEN /\ alive' = [alive EXCEPT ![a] = FALSE]
            /\ threads' = threads \ {a}
            /\ units' = units
            /\ CoopBusUnregister(a)
            /\ agents' = agents \ {a}
            /\ total_agents_died' = total_agents_died + 1
       ELSE /\ alive' = [alive EXCEPT ![a] = FALSE]
            /\ UNCHANGED << agent_queues, mailbox, agents, threads, units,
                            total_agents_died >>
    /\ UNCHANGED << message_history, lock, running, manager_queue,
                    total_agents_created, parent_id, children_ids, inbox,
                    context_history, pc_mon, mon_req, pub_vars, get_vars, env_vars,
                    hist_vars, wfc_vars, parse_vars, api_call >>

\* update_agent_summary, line 100, called by unregister_agent, line 49: the
\* generation call raises, the exception leaves terminate and lifecycle,
\* and the task ends with the agent still registered
CoopTerminateFails(a) ==
    /\ CoopNextAction(a, "TERMINATE")
    /\ alive[a] /\ a \in agents
    /\ ctx_len[a] >= SummaryMin
    /\ alive' = [alive EXCEPT ![a] = FALSE]
    /\ pc' = [pc EXCEPT ![a] = "c_crashed"]
    /\ UNCHANGED << bus_vars, mgr_vars, wfc_vars, parse_vars, api_call, parent_id, children_ids, inbox,
                    context_history, pc_mon, mon_req, pub_vars, get_vars, env_vars,
                    hist_vars >>

InitCoop ==
    /\ agent_queues = << >>
    /\ mailbox = [id \in Ids |-> << >>]
    /\ message_history = << >>
    /\ lock = FALSE
    /\ agents = {}
    /\ threads = {}
    /\ units = [a \in Ids |-> 0]
    /\ running = FALSE
    /\ manager_queue = << >>
    /\ total_agents_created = 0
    /\ total_agents_died = 0
    /\ alive = [id \in {} |-> TRUE]
    /\ parent_id = [id \in {} |-> NoParent]
    /\ children_ids = [id \in {} |-> << >>]
    /\ inbox = [id \in {} |-> << >>]
    /\ context_history = [id \in {} |-> << >>]
    /\ pc = [t \in Publishers |-> IF t = MANAGER THEN "c_new" ELSE "c_idle"]
    /\ pc_mon = "off"
    /\ mon_req = NoReq
    /\ actions = [id \in Ids |-> << >>]
    /\ msg = [t \in Publishers |-> NoMsg]
    /\ snap = [t \in Publishers |-> << >>]
    /\ fan_i = [t \in Publishers |-> 0]
    /\ got = [id \in Ids |-> << >>]
    /\ qref = [id \in Ids |-> "none"]
    /\ clock = 0
    /\ next_id = GENESIS + 1
    /\ tags_left = MaxPub
    /\ spawns_left = MaxSpawn
    /\ thinks_left = CoopThinks
    /\ passed = << >>
    /\ failed = {}
    /\ late = {}
    /\ wfc_pc = "idle"
    /\ timeout = NoTimeout
    /\ elapsed = 0
    /\ listing = [a \in Ids |-> NotListing]
    /\ resp_text = << >>
    /\ oplist = << >>
    /\ executed = << >>
    /\ parse_pc = "off"
    /\ self_alive = TRUE
    /\ tool_updates = << >>
    /\ api_call = NoCall

CoopStep(a) ==
    \/ CoopCheck(a) \/ CoopThink(a) \/ CoopThinkFails(a)
    \/ CoopSpawn(a) \/ CoopSpawnRegister(a)
    \/ CoopWaitStart(a) \/ CoopWaitEnd(a)
    \/ CoopTerminate(a) \/ CoopTerminateFails(a)

NextCoop ==
    \/ CoopCreateGenesis \/ CoopStart
    \/ \E a \in Ids : CoopStep(a)

SpecCoop == InitCoop /\ [][NextCoop]_vars

\* the two realizations side by side
SpecBoth == (Init \/ InitCoop) /\ [][Next \/ NextCoop]_vars

\* the run of a genesis agent that has broadcast n times while alone on the
\* bus: every message went to message_history and to no mailbox
InitHist ==
    /\ agent_queues = << GENESIS >>
    /\ mailbox = [id \in Ids |-> << >>]
    /\ \E n \in (max_history - HistSlack) .. max_history :
          /\ message_history = [i \in 1 .. n |-> Message(GENESIS, BROADCAST, i)]
          /\ passed = [i \in 1 .. n |-> Message(GENESIS, BROADCAST, i)]
          /\ clock = n
    /\ lock = FALSE
    /\ agents = {GENESIS}
    /\ threads = {GENESIS}
    /\ units = [a \in Ids |-> IF a = GENESIS THEN 1 ELSE 0]
    /\ running = TRUE
    /\ manager_queue = << >>
    /\ total_agents_created = 1
    /\ total_agents_died = 0
    /\ alive = (GENESIS :> TRUE)
    /\ parent_id = (GENESIS :> NoParent)
    /\ children_ids = (GENESIS :> << >>)
    /\ inbox = (GENESIS :> << >>)
    /\ context_history = (GENESIS :> << "user", "assistant", "user", "assistant" >>)
    /\ pc = [t \in Publishers |-> IF t = MANAGER THEN "started"
                                  ELSE IF t = GENESIS THEN "check"
                                  ELSE "unstarted"]
    /\ pc_mon = "loop"
    /\ mon_req = NoReq
    /\ actions = [id \in Ids |-> << >>]
    /\ msg = [t \in Publishers |-> NoMsg]
    /\ snap = [t \in Publishers |-> << >>]
    /\ fan_i = [t \in Publishers |-> 0]
    /\ got = [id \in Ids |-> << >>]
    /\ qref = [id \in Ids |-> "none"]
    /\ next_id = GENESIS + 1
    /\ tags_left = MaxPub
    /\ spawns_left = HistSpawn
    /\ thinks_left = MaxThinks
    /\ failed = {}
    /\ late = {}
    /\ wfc_pc = "idle"
    /\ timeout = NoTimeout
    /\ elapsed = 0
    /\ listing = [a \in Ids |-> NotListing]
    /\ resp_text = << >>
    /\ oplist = << >>
    /\ executed = << >>
    /\ parse_pc = "off"
    /\ self_alive = TRUE
    /\ tool_updates = << >>
    /\ api_call = NoCall

NextHist ==
    \/ MonitorStep
    \/ \E a \in Ids : AgentStep(a)
    \/ \E t \in Publishers : PublishStep(t)

SpecHist == InitHist /\ [][NextHist]_vars

\* ------------------------------------------------------------ properties
\* the messages an id holds, oldest first: those read into the inbox, those
\* a get_messages in progress has taken, those still in the mailbox
Places(id) ==
    (IF id \in DOMAIN inbox THEN inbox[id] ELSE << >>) \o got[id] \o mailbox[id]

\* a message whose publish has delivered it and returned
Delivered(m) == m \notin failed /\ \A t \in Publishers : msg[t] # m

\* the place of a message in the order of the calls of publish
CallOrder(m) == CHOOSE k \in DOMAIN passed : passed[k] = m

\* C1: whatever the interleaving of register, unregister and publish, a
\* mailbox that holds a message belongs to an id that is a key of
\* agent_queues, and a step that adds a message to a mailbox adds it for an
\* id that is a key before and after the step.
C1_EnqueueOnlyRegistered ==
    /\ [](\A id \in Ids : mailbox[id] # << >> => Registered(id))
    /\ [][\A id \in Ids :
            Len(mailbox'[id]) > Len(mailbox[id])
            => id \in Range(agent_queues) /\ id \in Range(agent_queues')]_vars

\* C1 witness: an unregister holds the lock over a mailbox that still has a
\* message while a publish addressed to that id is on its way.
C1_Witness ==
    /\ pc_mon = "unreg_drain"
    /\ mailbox[mon_req.id] # << >>
    /\ \E t \in Ids : pc[t] = "pub_direct" /\ msg[t].to = mon_req.id

\* C2: a direct message whose target is registered when publish delivers it
\* is put at the end of the target's mailbox and of no other, no failure
\* notice is built, and when a get_messages of the target returns, every
\* direct message delivered to the target is in the target's inbox.
C2_DirectDelivered ==
    [][/\ \A t \in Ids :
            (pc[t] = "pub_direct" /\ pc'[t] # "pub_direct"
                /\ Registered(msg[t].to))
            => /\ mailbox' = [mailbox EXCEPT ![msg[t].to] = Append(@, msg[t])]
               /\ pc'[t] # "pub_notice"
               /\ failed' = failed
       /\ \A r \in Ids :
            (pc[r] = "drain" /\ pc'[r] # "drain")
            => \A m \in Range(passed) :
                 (m.to = r /\ Delivered(m)) => m \in Range(inbox'[r])]_vars

\* C2 witness: a direct message of another agent is in the target's inbox
\* after a get_messages that returned it.
C2_Witness ==
    \E r \in DOMAIN inbox : \E m \in Range(inbox[r]) :
        /\ m.to = r /\ m.from \in Ids \ {r}
        /\ pc[r] = "think" /\ m = inbox[r][Len(inbox[r])]

\* C3: when publish finds the target of a direct message not registered, it
\* enqueues nothing at that step and builds one notice from "system" to the
\* sender that names the target; the notice goes once to the sender's
\* mailbox if the sender is registered and nowhere otherwise (the delivery
\* of a notice to an id that is not registered leaves every mailbox as it
\* is), publish returns, and no other step puts a notice into a mailbox.
C3_FailureNotice ==
    /\ [](\A t \in Ids : pc[t] = "pub_notice"
            => msg[t].from = SYSTEM /\ msg[t].to = t)
    /\ [](\A s, t \in Ids :
            ~Registered(s)
            => deliver_to_agent(mailbox, s,
                   FailureNotice(Message(s, t, clock), clock + 1)) = mailbox)
    /\ [][/\ \A t \in Ids :
               (pc[t] = "pub_direct" /\ pc'[t] # "pub_direct"
                   /\ ~Registered(msg[t].to))
               => /\ mailbox' = mailbox
                  /\ pc'[t] = "pub_notice"
                  /\ msg'[t].from = SYSTEM
                  /\ msg'[t].to = msg[t].from
                  /\ msg'[t].content = <<"DELIVERY FAILED", msg[t].to>>
          /\ \A t \in Ids :
               (pc[t] = "pub_notice" /\ pc'[t] # "pub_notice")
               => /\ mailbox' = IF Registered(t)
                                THEN [mailbox EXCEPT ![t] = Append(@, msg[t])]
                                ELSE mailbox
                  /\ pc'[t] \in {"exec", "check", "exited"}
          /\ \A id \in Ids :
               (/\ Len(mailbox'[id]) > Len(mailbox[id])
                /\ mailbox'[id][Len(mailbox'[id])].from = SYSTEM)
               => pc[id] = "pub_notice" /\ pc'[id] # "pub_notice"]_vars

\* C3 witness: the sender of a direct message that was not delivered has
\* read the notice that names the target.
C3_Witness ==
    \E f \in failed : \E n \in Range(inbox[f.from]) :
        /\ n.from = SYSTEM /\ n.to = f.from
        /\ n.content = <<"DELIVERY FAILED", f.to>>
        /\ ~Registered(f.to)

\* C4, as the specification states it: a publish of a direct message whose
\* target is not registered adds no entry to message_history.
C4_Original ==
    \A m \in failed : Count(m, message_history) = 0

\* C4, amended: a publish of a direct message whose target is not
\* registered adds exactly one entry to message_history, the message
\* itself, and its failure notice adds none.
C4_FailedDirectRecorded ==
    \A m \in failed :
        /\ Count(m, message_history) = 1
        /\ \A i \in DOMAIN message_history :
             ~(message_history[i].from = SYSTEM
                 /\ message_history[i].to = m.from)

\* C4 witness: the publish of a direct message that was not delivered has
\* returned.
C4_Witness ==
    \E m \in failed :
        /\ pc[m.from] # "pub_notice"
        /\ m.to \in Ids /\ ~Registered(m.to)
        /\ m \in Range(message_history)

\* C5: when the fan-out of a broadcast of X ends, the keys of agent_queues
\* are those the call copied and no unregister_agent is under way, every
\* registered id other than X holds exactly one copy of the message and X
\* and every other id hold none.
C5_BroadcastOncePerRecipient ==
    [][\A t \in Ids :
         (pc[t] = "pub_fan" /\ pc'[t] # "pub_fan" /\ agent_queues' = snap[t]
            /\ ~lock')
         => \A id \in Ids :
              Count(msg[t], Places(id)') =
                 IF id \in Range(agent_queues') /\ id # t THEN 1 ELSE 0]_vars

\* C5 witness: a broadcast whose publish has returned is held by two other
\* agents at once, all of them registered, and not by its sender.
C5_Witness ==
    \E m \in Range(passed) :
        /\ m.to = BROADCAST /\ Delivered(m)
        /\ Cardinality({ id \in Ids : Count(m, Places(id)) = 1 }) >= 2
        /\ Count(m, Places(m.from)) = 0
        /\ Len(agent_queues) = 3

\* C6: message_history never holds more than max_history entries; the
\* first step of every publish appends its message and, when that makes the
\* history too long, drops the entries at the front, and no other step
\* changes it: it is the last max_history messages in the order in which
\* publish recorded them.
C6_HistoryBounded ==
    /\ [](Len(message_history) <= max_history)
    /\ [][/\ \A t \in Publishers :
               (pc[t] = "pub_hist" /\ pc'[t] # "pub_hist")
               => LET all == Append(message_history, msg[t])
                      first == IF Len(all) > max_history
                               THEN Len(all) - max_history + 1 ELSE 1
                  IN  message_history' = SubSeq(all, first, Len(all))
          /\ message_history' # message_history
               => \E t \in Publishers :
                     pc[t] = "pub_hist" /\ pc'[t] # "pub_hist"]_vars

\* C6 witness: two agents have published at the capacity: the history is
\* full, its oldest entries are gone and its newest are those two messages.
C6_Witness ==
    /\ Len(message_history) = max_history
    /\ message_history[1].timestamp > 1
    /\ message_history[max_history].from
          # message_history[max_history - 1].from
    /\ message_history[max_history - 1].timestamp > max_history

\* C7: every message passed to publish is in message_history exactly once
\* as soon as the call is past its first step, delivered or not, and no
\* failure notice is ever in message_history.
C7_HistoryRecordsEachPublish ==
    /\ \A k \in DOMAIN passed :
          Count(passed[k], message_history) =
             IF pc[passed[k].from] = "pub_hist" /\ msg[passed[k].from] = passed[k]
             THEN 0 ELSE 1
    /\ \A i \in DOMAIN message_history :
          /\ message_history[i].from # SYSTEM
          /\ message_history[i] \in Range(passed)

\* C7 witness: message_history holds a broadcast and a direct message that
\* was not delivered, and a failure notice sits in a mailbox.
C7_Witness ==
    /\ \E m \in Range(message_history) : m.to = BROADCAST
    /\ \E m \in Range(message_history) : m \in failed
    /\ \E id \in Ids : \E n \in Range(mailbox[id]) : n.from = SYSTEM

\* C8: the messages of one sender that a receiver holds are, from the
\* inbox over the list being drained to the mailbox, in the order in which
\* the sender published them, whether a drain or a blocking wait read them.
C8_PerSenderFifo ==
    \A r \in Ids :
        \A i, j \in DOMAIN Places(r) :
            (i < j /\ Places(r)[i].from = Places(r)[j].from
                /\ Places(r)[i].from \in Ids)
            => CallOrder(Places(r)[i]) < CallOrder(Places(r)[j])

\* C8 witness: the genesis agent, after its one response, has in its inbox
\* two messages of one child: the blocking wait of that response read the
\* first and the drain that followed read the second.
C8_Witness ==
    \E r \in {GENESIS} \cap DOMAIN inbox : \E i, j \in DOMAIN inbox[r] :
        /\ i < j /\ ctx_len[r] = 2
        /\ Places(r)[i].from = Places(r)[j].from
        /\ Places(r)[i].from \in Ids \ {r}
        /\ Places(r)[i].to = r /\ Places(r)[j].to = r

\* C9: a recipient holds a message at most once and only if the message is
\* a broadcast or addressed to it, a direct message that was not delivered
\* is held by nobody, also after its target registers, and what an inbox
\* has taken stays in it as it was.
C9_AtMostOnce ==
    /\ [](/\ \A id \in Ids : \A m \in Range(Places(id)) :
               /\ Count(m, Places(id)) = 1
               /\ m.to \in {BROADCAST, id}
          /\ \A m \in failed : \A id \in Ids : m \notin Range(Places(id)))
    /\ [][\A id \in DOMAIN inbox :
            /\ Len(inbox'[id]) >= Len(inbox[id])
            /\ SubSeq(inbox'[id], 1, Len(inbox[id])) = inbox[id]]_vars

\* C9 witness: the target of a direct message that was not delivered is
\* registered by now, has read its mailbox, and does not hold the message.
C9_Witness ==
    \E m \in failed :
        /\ m.to \in Ids /\ Registered(m.to)
        /\ pc[m.to] = "think"
        /\ pc[m.from] \notin {"pub_direct", "pub_notice"}

\* C10: alive is true when the agent object is made, a step changes it only
\* from true to false, and a terminate of an agent that is not alive
\* changes neither alive nor the control queue.
C10_AliveMonotonic ==
    [][/\ \A a \in DOMAIN alive' : a \notin DOMAIN alive => alive'[a]
       /\ \A a \in DOMAIN alive : a \in DOMAIN alive' /\ (alive'[a] => alive[a])
       /\ \A a \in DOMAIN alive :
            (/\ ~alive[a] /\ pc[a] = "exec" /\ actions[a] # << >>
             /\ Head(actions[a]).kind = "TERMINATE"
             /\ actions'[a] = Tail(actions[a]))
            => alive' = alive /\ manager_queue' = manager_queue]_vars

\* C10 witness: an agent that a first terminate has marked not alive is
\* about to run terminate again.
C10_Witness ==
    \E a \in DOMAIN alive :
        /\ ~alive[a] /\ pc[a] = "exec" /\ actions[a] # << >>
        /\ Head(actions[a]).kind = "TERMINATE"

\* C11: once an agent's alive is false, no message is put into its
\* mailbox, it puts no spawn request into the control queue, and it is not
\* in the Registry.
C11_Original ==
    /\ [](\A a \in DOMAIN alive : ~alive[a] => a \notin agents)
    /\ [][\A a \in DOMAIN alive :
            ~alive[a]
            => /\ Len(mailbox'[a]) <= Len(mailbox[a])
               /\ children_ids'[a] = children_ids[a]]_vars

\* C12: a direct message that A sends to B after B's alive became false is
\* never put into B's mailbox, and once its publish has returned it is one
\* of the messages whose delivery failed, for which A was sent a notice.
C12_Original ==
    \A m \in late :
        /\ m \notin Range(mailbox[m.to])
        /\ (\A t \in Publishers : msg[t] # m) => m \in failed

\* C13: in both realizations, every agent in the Registry other than
\* genesis has a parent whose children_ids holds its id exactly once, no id
\* is in the children_ids of two agents, and children_ids of an agent grows
\* only by the id drawn when that agent itself executes SPAWN: the parent
\* of a child is the agent that executed the SPAWN, and the id is recorded
\* before the child is registered.
C13_SpawnTree ==
    /\ [](\A c \in agents \ {GENESIS} :
            /\ parent_id[c] \in DOMAIN children_ids
            /\ Count(c, children_ids[parent_id[c]]) = 1)
    /\ [](\A a, b \in DOMAIN children_ids :
            a # b => Range(children_ids[a]) \cap Range(children_ids[b]) = {})
    /\ [][\A a \in DOMAIN children_ids :
            children_ids'[a] # children_ids[a]
            => /\ pc[a] \in {"exec", "c_exec"}
               /\ actions[a] # << >>
               /\ Head(actions[a]).kind = "SPAWN"
               /\ actions'[a] = Tail(actions[a])
               /\ children_ids'[a] = Append(children_ids[a], next_id)]_vars

\* C13 witness: the monitor has registered a child of a child of genesis.
C13_Witness ==
    \E c \in agents \ {GENESIS} :
        /\ parent_id[c] # GENESIS
        /\ parent_id[parent_id[c]] = GENESIS
        /\ pc_mon = "loop"
        /\ c \in threads

\* C14 as stated, in the queued spawn path of the thread realization:
\* once the monitor thread has ended, no list of children names a child
\* that was never built, and a spawn request that can no longer be served
\* has left no id behind.
C14_Original ==
    pc_mon = "exited"
    => \A a \in DOMAIN children_ids :
           \A c \in Range(children_ids[a]) : c \in DOMAIN alive

\* C15 as stated, for the timeouts that are numbers: when
\* wait_for_convergence finds live agents and more than timeout seconds
\* have passed since it was called, it returns False; timeout = 0 included.
C15_Original ==
    [][(/\ wfc_pc = "check_timeout"
        /\ wfc_pc' # "check_timeout"
        /\ timeout # NoTimeout
        /\ Seconds(elapsed) > timeout)
       => wfc_pc' = "False"]_vars

\* C16 as stated, as far as a finite run shows it: with genesis the only
\* agent ever created and no message ever published, once genesis has run
\* TERMINATE and the monitor has taken its request and is back at the top
\* of its loop, the Registry is empty and the bus holds no mailbox.
C16_Original ==
    (/\ GENESIS \in DOMAIN alive
     /\ ~alive[GENESIS]
     /\ next_id = GENESIS + 1
     /\ passed = << >>
     /\ manager_queue = << >>
     /\ mon_req = NoReq
     /\ pc_mon = "loop")
    => /\ agents = {}
       /\ agent_queues = << >>

\* the place of a kind in the order SPAWN, BROADCAST, MESSAGE, WAIT, PRINT,
\* TERMINATE, TOOL
Rank(k) == CHOOSE i \in DOMAIN ToolKinds : ToolKinds[i] = k

\* the kinds the parse of the agent at hand scans for
Scanned == IF parse_pc \in {"run_tool", "done_tool"} THEN Range(ToolKinds)
                                                     ELSE Range(Kinds)

\* the operation list of the call: what has been executed, then what is left
OpList == executed \o oplist

\* C17: once a response is parsed, the operations executed so far followed
\* by those still to run are the matches of the scanned kinds, in the order
\* SPAWN, BROADCAST, MESSAGE, WAIT, PRINT, TERMINATE, TOOL of their kinds
\* and in the order of the text within one kind, wherever the tags stand in
\* the text; one MESSAGE tag followed by one SPAWN tag runs SPAWN, then
\* MESSAGE.
C17_GroupedByKind ==
    parse_pc \in {"run", "run_tool", "done", "done_tool"}
    => /\ \A i, j \in DOMAIN OpList :
              i < j => Rank(OpList[i].kind) <= Rank(OpList[j].kind)
       /\ \A k \in Range(ToolKinds) :
              OfKind(OpList, k) = IF k \in Scanned THEN OfKind(resp_text, k)
                                                   ELSE << >>
       /\ (/\ Len(resp_text) = 2
           /\ resp_text[1].kind = "MESSAGE"
           /\ resp_text[2].kind = "SPAWN"
           /\ parse_pc \in {"done", "done_tool"})
          => executed = << resp_text[2], resp_text[1] >>

C17_Witness ==
    /\ parse_pc = "done_tool"
    /\ Len(resp_text) = 3
    /\ resp_text[1].kind = "TOOL"
    /\ resp_text[2].kind = "MESSAGE"
    /\ resp_text[3].kind = "SPAWN"
    /\ executed = << resp_text[3], resp_text[2], resp_text[1] >>

\* an agent inside wait_for_messages
Waiting(a) == pc[a] \in {"wait_get", "poll"}

\* C18: an agent that runs WAIT with any number enters wait_for_messages,
\* and while it is there it runs no later operation of the response, starts
\* no new iteration of its loop and changes nothing of its own, until one
\* step takes the first message out of its mailbox, appends it to the inbox
\* and only then goes on with the rest of the response.
C18_WaitBlocks ==
    [][\A a \in Ids :
          /\ (/\ pc[a] = "exec"
              /\ actions[a] # << >>
              /\ Head(actions[a]).kind = "WAIT"
              /\ pc'[a] # "exec")
             => /\ Waiting(a)'
                /\ actions'[a] = actions[a]
                /\ inbox'[a] = inbox[a]
          /\ Waiting(a)
             => \/ /\ pc'[a] = pc[a]
                   /\ actions'[a] = actions[a]
                   /\ inbox'[a] = inbox[a]
                   /\ ctx_len'[a] = ctx_len[a]
                   /\ children_ids'[a] = children_ids[a]
                   /\ alive'[a] = alive[a]
                   /\ Len(passed') >= Len(passed)
                   /\ \A k \in (DOMAIN passed') \ DOMAIN passed :
                          passed'[k].from # a
                \/ /\ pc[a] = "wait_get"
                   /\ mailbox[a] # << >>
                   /\ inbox'[a] = Append(inbox[a], Head(mailbox[a]))
                   /\ mailbox'[a] = Tail(mailbox[a])
                   /\ actions'[a] = Tail(actions[a])
                   /\ pc'[a] = Resume(actions'[a], alive[a])]_vars

\* genesis ran WAIT with the number 0, found its mailbox empty and is still
\* waiting while its child has gone through an iteration of its own
C18_Witness ==
    /\ pc[GENESIS] = "wait_get"
    /\ Head(actions[GENESIS]) = Tag("WAIT", 0)
    /\ mailbox[GENESIS] = << >>
    /\ inbox[GENESIS] = << >>
    /\ \E c \in agents \ {GENESIS} : ctx_len[c] >= 2

\* C19 as stated, for the operation WAIT: in either realization the effect
\* of WAIT on the agent is the one of the thread realization, so an agent
\* that has run WAIT goes on only with a message taken from its mailbox
\* into its inbox.
C19_Original ==
    [][\A a \in Ids :
          (/\ pc[a] \in {"wait_get", "c_sleep"}
           /\ pc'[a] # pc[a])
          => /\ mailbox[a] # << >>
             /\ inbox'[a] = Append(inbox[a], Head(mailbox[a]))]_vars

\* C20: while the manager runs, the Registry changes only in a step of the
\* monitor thread that ends its handling of a request: the request is one
\* it took from the head of manager_queue before, the step inserts or
\* removes the id the request names, and no agent thread moves in that
\* step.
C20_MonitorOnlyMutator ==
    /\ [][(running /\ agents' # agents)
          => /\ \A a \in threads : pc'[a] = pc[a] /\ actions'[a] = actions[a]
             /\ manager_queue' = manager_queue
             /\ mon_req # NoReq
             /\ pc_mon' = "loop"
             /\ \/ /\ mon_req.type = "spawn"
                   /\ pc_mon = "reg_mgr"
                   /\ agents' = agents \cup {mon_req.id}
                \/ /\ mon_req.type = "terminate"
                   /\ pc_mon = "unreg_mgr"
                   /\ agents' = agents \ {mon_req.id}]_vars
    /\ [][(mon_req' # mon_req /\ mon_req' # NoReq)
          => /\ pc_mon = "get"
             /\ manager_queue # << >>
             /\ mon_req' = Head(manager_queue)
             /\ manager_queue' = Tail(manager_queue)]_vars

\* the monitor has registered a child and has removed genesis
C20_Witness ==
    /\ running
    /\ GENESIS \in DOMAIN alive
    /\ GENESIS \notin agents
    /\ agents # {}
    /\ total_agents_died >= 1

\* C21 as stated, for the thread realization: when stop() has returned, no
\* agent thread is still in its lifecycle loop or blocked in WAIT.
C21_Original ==
    pc[MANAGER] = "stopped"
    => \A a \in Ids : pc[a] \in {"unstarted", "exited"}

\* C22 as stated, for one call of execute_actions: every operation other
\* than TERMINATE that the call executes is executed while the agent is
\* alive.
C22_Original ==
    [][(executed' # executed /\ Head(oplist).kind # "TERMINATE")
       => self_alive]_vars

\* C23: a TOOL operation adds exactly one update to tool_updates, for the
\* tool it names: an error for a name that is not in tools, an error or a
\* success for a tool that is called; the flag alive is as before, and the
\* loop of execute_actions goes on with the next operation.
C23_ToolNeverCrashes ==
    /\ [][(executed' # executed /\ Head(oplist).kind = "TOOL")
          => /\ Len(tool_updates') = Len(tool_updates) + 1
             /\ SubSeq(tool_updates', 1, Len(tool_updates)) = tool_updates
             /\ tool_updates'[Len(tool_updates')].tool = Head(oplist).target
             /\ tool_updates'[Len(tool_updates')].status \in {"success", "error"}
             /\ Head(oplist).target \notin tools
                => tool_updates'[Len(tool_updates')].status = "error"
             /\ self_alive' = self_alive
             /\ parse_pc' = parse_pc]_vars
    /\ [][tool_updates' # tool_updates
          => executed' # executed /\ Head(oplist).kind = "TOOL"]_vars
    /\ [](parse_pc \in {"off", "parse", "parse_tool", "run", "run_tool",
                        "done", "done_tool"})

\* an unknown tool, a tool that raised and a tool that returned, one after
\* the other, and the call of execute_actions has returned
C23_Witness ==
    /\ parse_pc = "done_tool"
    /\ self_alive
    /\ Len(tool_updates) = 3
    /\ tool_updates[1] = [tool |-> 2, status |-> "error"]
    /\ tool_updates[2] = [tool |-> 1, status |-> "error"]
    /\ tool_updates[3] = [tool |-> 1, status |-> "success"]

\* C24: the step in which the generation call of an agent fails ends the
\* thread of that agent and changes nothing else: the Registry, the keys of
\* the bus, every mailbox, the agent's transcript and inbox and every other
\* thread are as before; the thread that ended takes no further step.
C24_FailureLeavesState ==
    [][\A a \in Ids :
          /\ (pc[a] = "think" /\ pc'[a] = "crashed")
             => /\ agents' = agents
                /\ threads' = threads
                /\ agent_queues' = agent_queues
                /\ mailbox' = mailbox
                /\ message_history' = message_history
                /\ manager_queue' = manager_queue
                /\ ctx_len' = ctx_len
                /\ inbox' = inbox
                /\ alive' = alive
                /\ children_ids' = children_ids
                /\ \A b \in Publishers \ {a} : pc'[b] = pc[b]
                /\ pc_mon' = pc_mon
          /\ pc[a] = "crashed"
             => /\ pc'[a] = "crashed"
                /\ actions'[a] = actions[a]
                /\ ctx_len'[a] = ctx_len[a]
                /\ inbox'[a] = inbox[a]
                /\ alive'[a] = alive[a]]_vars

\* the thread of genesis has ended in a failed generation call while it is
\* registered, and a child of it has been through a generation call
C24_Witness ==
    /\ pc[GENESIS] = "crashed"
    /\ GENESIS \in agents
    /\ \E c \in agents \ {GENESIS} : ctx_len[c] >= 2 /\ pc[c] # "crashed"

\* the step is a call of the named public method for this id
ApiCalls(op, id) ==
    /\ api_call' # api_call
    /\ api_call'.op = op
    /\ api_call'.id = id

\* C25: a call of unregister_agent for an id that is not in the Registry,
\* never registered or unregistered before, returns with the Registry, the
\* keys and the mailboxes of the bus, the thread table and both counters as
\* they were.
C25_UnregisterUnknownNoOp ==
    [][\A id \in Ids :
          (ApiCalls("unregister", id) /\ id \notin agents)
          => /\ agents' = agents
             /\ threads' = threads
             /\ agent_queues' = agent_queues
             /\ mailbox' = mailbox
             /\ message_history' = message_history
             /\ total_agents_created' = total_agents_created
             /\ total_agents_died' = total_agents_died]_vars

\* the last call was unregister_agent for an agent unregistered before, at
\* a time when another agent was registered and held a message
C25_Witness ==
    /\ api_call.op = "unregister"
    /\ api_call.id \in DOMAIN alive
    /\ api_call.id \notin agents
    /\ total_agents_died = 1
    /\ \E b \in agents : Registered(b) /\ mailbox[b] # << >>

Unregistered(id) == id \in DOMAIN alive /\ ~alive[id] /\ id \notin agents

C28_BusRegisterIdempotent ==
    [][\A id \in Ids :
          ApiCalls("bus_register", id)
          => /\ message_history' = message_history
             /\ \A other \in Ids \ {id} : mailbox'[other] = mailbox[other]
             /\ IF Registered(id)
                THEN /\ agent_queues' = agent_queues
                     /\ mailbox'[id] = mailbox[id]
                ELSE /\ agent_queues' = Append(agent_queues, id)
                     /\ mailbox'[id] = << >>]_vars

\* the last call registered an id that is registered, with a message in its
\* mailbox, and an earlier call had registered an id new to the bus
C28_Witness ==
    /\ api_call.op = "bus_register"
    /\ Registered(api_call.id)
    /\ mailbox[api_call.id] # << >>
    /\ \E id \in Range(agent_queues) : id \notin DOMAIN alive

\* the ids of the agents a subtree holds
RECURSIVE SubtreeIds(_)
SubtreeIds(t) ==
    {t.id} \cup UNION { SubtreeIds(t.children[i]) : i \in DOMAIN t.children }

\* the ids of the agents the tree holds
TreeIds == UNION { SubtreeIds(get_agent_tree[r]) : r \in DOMAIN get_agent_tree }

\* the agents above an agent, by parent_id
RECURSIVE Ancestors(_)
Ancestors(a) ==
    IF a \notin DOMAIN parent_id \/ parent_id[a] = NoParent
    THEN {}
    ELSE {parent_id[a]} \cup Ancestors(parent_id[a])

\* C29: whenever get_agent_tree is called, the tree holds only agents of
\* the Registry, its roots are the agents of the Registry that have no
\* parent, and an agent below a child that is not in the Registry is not in
\* the tree, whether or not it is in the Registry itself.
C29_TreeOfRegistered ==
    /\ TreeIds \subseteq agents
    /\ DOMAIN get_agent_tree = { a \in agents : parent_id[a] = NoParent }
    /\ \A r \in DOMAIN get_agent_tree : get_agent_tree[r].id = r
    /\ \A a \in TreeIds : Ancestors(a) \subseteq agents
    /\ \A a \in agents : Ancestors(a) \subseteq agents => a \in TreeIds

\* genesis is registered, its child is not, and the child of that child
\* is: the tree holds genesis alone
C29_Witness ==
    /\ GENESIS \in agents
    /\ \E c, g \in Ids :
          /\ children_ids[GENESIS] = << c >>
          /\ c \in DOMAIN alive
          /\ c \notin agents
          /\ g \in agents
          /\ parent_id[g] = c
    /\ TreeIds = {GENESIS}
    /\ get_agent_tree[GENESIS].children = << >>

\* the steps of one lifecycle iteration (lifecycle, lines 381-394, and
\* work_cycle, lines 396-462), by the place of the thread: check_messages,
\* then the prompt and the generation call, then execute_actions
InDrain(p) == p \in {"check", "drain"}
InThink(p) == p = "think"
InExecute(p) == p \in {"exec", "wait_get", "poll", "pub_hist", "pub_snap",
                        "pub_fan", "pub_direct", "pub_notice"}

IsPrefix(s, t) == Len(s) <= Len(t) /\ SubSeq(t, 1, Len(s)) = s

\* C30: every lifecycle iteration drains the mailbox, then builds the prompt
\* and makes the generation call, then appends to the transcript, then
\* executes the operations; a generation call that returns appends exactly
\* two entries, the prompt with role user and then the response with role
\* assistant; a call that fails appends none; no step removes or reorders
\* an entry of a transcript.
C30_IterationOrder ==
    [][\A a \in DOMAIN context_history :
          LET h == context_history[a]
              g == context_history'[a]
              returned == InThink(pc[a]) /\ pc'[a] \notin {"think", "crashed"}
          IN  /\ a \in DOMAIN context_history'
              /\ IsPrefix(h, g)
              /\ g # h => returned
              /\ returned => /\ g = h \o << "user", "assistant" >>
                             /\ actions[a] = << >>
              /\ InThink(pc[a]) /\ pc'[a] = "crashed" => g = h
              /\ InDrain(pc[a]) => InDrain(pc'[a]) \/ InThink(pc'[a])
              /\ InThink(pc'[a]) /\ ~InThink(pc[a]) =>
                     /\ InDrain(pc[a])
                     /\ got'[a] = << >>
              /\ InExecute(pc'[a]) /\ ~InExecute(pc[a]) => returned
              /\ actions'[a] # actions[a] =>
                     returned \/ InExecute(pc[a])
      ]_vars

\* an agent in its second iteration, with both prompts and both responses
\* in its transcript and the operations of the second response to execute,
\* while the generation call of its child has failed
C30_Witness ==
    \E a \in agents :
       /\ context_history[a] = << "user", "assistant", "user", "assistant" >>
       /\ pc[a] = "exec"
       /\ actions[a] # << >>
       /\ \E c \in DOMAIN context_history :
              /\ parent_id[c] = a
              /\ pc[c] = "crashed"
              /\ context_history[c] = << >>

\* the spawn requests that no register_agent has answered yet: those on
\* manager_queue (agent.py 236) and the one the monitor has taken
\* (manager.py 177-192)
PendingSpawns ==
    { manager_queue[i].id : i \in { j \in DOMAIN manager_queue :
                                       manager_queue[j].type = "spawn" } }
    \cup (IF mon_req.type = "spawn" THEN {mon_req.id} ELSE {})

\* C31 as stated: once wait_for_convergence has returned True, no spawn
\* request is pending and no agent of the Registry is live, then or later.
C31_Original ==
    wfc_pc = "True"
    => /\ PendingSpawns = {}
       /\ get_active_agents = {}

\* start (manager.py lines 154-171) called when the manager is already
\* started: the loop of lines 165-169 has no test of self.threads, so every
\* agent of the Registry gets one more thread on agent.run and its entry of
\* the thread table is overwritten. The new threads (and the second
\* monitor thread of lines 160-162) are counted and not followed further.
StartAgain ==
    /\ pc[MANAGER] = "started"
    /\ agents # {}
    /\ \A a \in agents : units[a] < MaxUnits
    /\ running' = TRUE
    /\ threads' = threads \cup agents
    /\ units' = [a \in Ids |-> IF a \in agents THEN units[a] + 1 ELSE units[a]]
    /\ UNCHANGED << bus_vars, agents, manager_queue, total_agents_created,
                    total_agents_died, wfc_vars, parse_vars, api_call,
                    obj_vars, pc, pc_mon, mon_req, actions, pub_vars,
                    get_vars, env_vars, hist_vars >>

\* the herd of SpecStart with a caller that may call start() again
NextRestart == NextStart \/ StartAgain

SpecRestart == InitStart /\ [][NextRestart]_vars

\* the threads started on agent.run (manager.py 61-65, 165-169) that have
\* not left lifecycle: the thread the model follows has left it when it
\* has exited or crashed
RunningUnits(a) ==
    IF pc[a] \in {"exited", "crashed"} /\ units[a] > 0
    THEN units[a] - 1 ELSE units[a]

\* C32 as stated: every agent of the Registry has at most one execution
\* unit in its lifecycle loop, start() being called any number of times.
C32_Original ==
    \A a \in agents : alive[a] => RunningUnits(a) <= 1

\* --------------------------------------- the agent threads as readers
\* work_cycle, lines 399-403: _cycle_count goes up and update_agent_list
\* (lines 314-318) calls manager.get_active_agents, whose comprehension
\* (manager.py 232) starts to iterate self.agents.values(); no lock is taken
WorkCycleList(a) ==
    /\ pc[a] = "think"
    /\ ~listing[a].reading
    /\ listing[a].cycle_count = Len(context_history[a]) \div 2
    /\ listing' = [listing EXCEPT ![a] = [cycle_count |-> @.cycle_count + 1,
                                          reading |-> TRUE,
                                          seen |-> agents]]
    /\ UNCHANGED << bus_vars, mgr_vars, wfc_pc, timeout, elapsed, parse_vars,
                    api_call, obj_vars, pc, pc_mon, mon_req, actions,
                    pub_vars, get_vars, env_vars, hist_vars >>

\* manager.py 232: the iteration comes to its end and the list is returned
ListReturns(a) ==
    /\ listing[a].reading
    /\ listing' = [listing EXCEPT ![a] = [@ EXCEPT !.reading = FALSE,
                                                   !.seen = {}]]
    /\ UNCHANGED << bus_vars, mgr_vars, wfc_pc, timeout, elapsed, parse_vars,
                    api_call, obj_vars, pc, pc_mon, mon_req, actions,
                    pub_vars, get_vars, env_vars, hist_vars >>

\* manager.py 232: the dict has changed size under the iteration, which
\* raises RuntimeError; it leaves lifecycle and run (agent.py 477-487)
\* catches it, so the thread ends
ListRaises(a) ==
    /\ listing[a].reading
    /\ listing[a].seen # agents
    /\ listing' = [listing EXCEPT ![a] = [@ EXCEPT !.reading = FALSE,
                                                   !.seen = {}]]
    /\ pc' = [pc EXCEPT ![a] = "crashed"]
    /\ UNCHANGED << bus_vars, mgr_vars, wfc_pc, timeout, elapsed, parse_vars,
                    api_call, obj_vars, pc_mon, mon_req, actions,
                    pub_vars, get_vars, env_vars, hist_vars >>

\* the list of this work_cycle is made before its prompt is built
Listed(a) ==
    /\ ~listing[a].reading
    /\ pc[a] = "think" =>
           listing[a].cycle_count = Len(context_history[a]) \div 2 + 1

AgentStepScan(a) ==
    \/ Listed(a) /\ AgentStepQuiet(a)
    \/ WorkCycleList(a) \/ ListReturns(a) \/ ListRaises(a)

\* a herd whose agents send no messages, with the Registry reads of its
\* agent threads followed
InitScan == Constructed(0, ScanSpawn, ScanThinks) /\ NoParse

NextScan ==
    \/ MainStep
    \/ MonitorStep
    \/ \E a \in Ids : AgentStepScan(a)

SpecScan == InitScan /\ [][NextScan]_vars

\* the threads inside a traversal of the Registry
Readers == { a \in Ids : listing[a].reading }

\* C33 as stated: the monitor never inserts or deletes a Registry entry
\* while an agent thread is inside its traversal of the Registry.
C33_Original ==
    [][agents' # agents => Readers = {}]_vars

\* the terminate request of this agent is on manager_queue (agent.py
\* 264-268) or in the hands of the monitor (manager.py 193-196)
TerminatePending(a) ==
    \/ \E i \in DOMAIN manager_queue :
          manager_queue[i].type = "terminate" /\ manager_queue[i].id = a
    \/ mon_req.type = "terminate" /\ mon_req.id = a

\* C34 as stated: once the monitor is through with the terminate request
\* of a registered agent, the agent is out of the Registry and its mailbox
\* is out of the Bus; no dead agent stays in the Registry, with or without
\* its mailbox, when no terminate request for it is left.
C34_Original ==
    \A a \in DOMAIN alive :
       ~alive[a] /\ ~TerminatePending(a) => a \notin agents /\ ~Registered(a)

\* the bus's unregister_agent (message_bus.py 32-45) is at work on this id
Unregistering(id) == pc_mon = "unreg_drain" /\ mon_req.id = id

\* C35: when the fan-out of a broadcast of X ends, whatever was registered
\* and unregistered while it ran, no id holds the message twice, X does not
\* hold it, and every other id whose key the call copied and that is still
\* registered, with no unregister_agent at work on it, holds it exactly
\* once; an id that does not hold it was registered after the copy was
\* made or has been unregistered since.
C35_BroadcastUnderChurn ==
    [][\A t \in Publishers :
         (pc[t] = "pub_fan" /\ pc'[t] # "pub_fan")
         => \A id \in Ids :
              LET n == Count(msg[t], Places(id)')
                  stayed == /\ id \in Range(snap[t])
                            /\ id \in Range(agent_queues')
                            /\ ~Unregistering(id)'
              IN  /\ n <= 1
                  /\ id = t => n = 0
                  /\ id # t /\ stayed => n = 1
                  /\ id # t /\ n = 0 => ~stayed]_vars

\* the last turn of the fan-out of a broadcast is at hand; one agent whose
\* key the call copied holds the message, and another agent has been
\* registered since the copy was made and does not hold it
C35_Witness ==
    \E t \in Ids :
       /\ pc[t] = "pub_fan"
       /\ fan_i[t] = Len(snap[t])
       /\ \E id \in Range(snap[t]) \ {t} : Count(msg[t], Places(id)) = 1
       /\ \E late_id \in Range(agent_queues) \ Range(snap[t]) :
              Count(msg[t], Places(late_id)) = 0

\* SpecWfc with every thread scheduled again and again: the caller of
\* wait_for_convergence, the monitor thread and each agent thread take
\* their next step when one is open to them
FairSpecWfc ==
    /\ SpecWfc
    /\ WF_vars(WfcStep)
    /\ WF_vars(MonitorStep)
    /\ \A a \in Ids : WF_vars(AgentStepQuiet(a))

\* every agent thread of the Registry has ended, one at least by an
\* exception out of lifecycle (agent.py 477-487), and no spawn is pending
AllUnitsEnded ==
    /\ agents # {}
    /\ \A a \in agents : pc[a] \in {"exited", "crashed"}
    /\ \E a \in agents : pc[a] = "crashed"
    /\ PendingSpawns = {}

\* C36 as stated: when an agent's thread has ended by a failed generation
\* call and every other agent has terminated, a wait_for_convergence that
\* is under way returns True.
C36_Original ==
    [](wfc_pc \in {"check_active", "check_timeout", "sleep"} /\ AllUnitsEnded
         => <>(wfc_pc = "True"))

RECURSIVE SumSeq(_)
SumSeq(s) == IF s = << >> THEN 0 ELSE Head(s) + SumSeq(Tail(s))

\* how often an id is the id of a node of a subtree
RECURSIVE CountIn(_, _)
CountIn(t, a) ==
    (IF t.id = a THEN 1 ELSE 0)
    + SumSeq([i \in DOMAIN t.children |-> CountIn(t.children[i], a)])

\* how often an id is the id of a node of the tree get_agent_tree returns
TreeCount(a) ==
    SumSeq([i \in 1 .. (MaxSpawn + 1) |->
               IF (GENESIS + i - 1) \in DOMAIN get_agent_tree
               THEN CountIn(get_agent_tree[GENESIS + i - 1], a) ELSE 0])

\* C37 as stated: every agent of the Registry is in the tree exactly once,
\* also when its parent has been unregistered.
C37_Original ==
    \A a \in agents : TreeCount(a) = 1

\* C37, amended: an agent of the Registry is in the tree exactly once when
\* its parent, the parent of that, and so on up to a parentless agent are
\* all in the Registry, and is not in the tree otherwise; no agent is in
\* the tree twice.
C37_OncePerRootedAgent ==
    \A a \in Ids :
       TreeCount(a) = IF a \in agents /\ Ancestors(a) \subseteq agents
                      THEN 1 ELSE 0

\* the Registry holds an agent that is in the tree once and an agent whose
\* parent has been unregistered, which is not in the tree
C37_Witness ==
    \E a, b \in agents :
       /\ TreeCount(a) = 1
       /\ parent_id[b] \in DOMAIN alive
       /\ parent_id[b] \notin agents
       /\ TreeCount(b) = 0

\* the monitor is inside register_agent (manager.py 40-68) or
\* unregister_agent (manager.py 70-92); create_genesis_agent and its
\* register_agent are one step of the main thread
InRegistryCall ==
    pc_mon \in {"reg_bus", "reg_mgr", "unreg_sum", "unreg_bus", "unreg_drain",
                "unreg_mgr"}

GetHistory ==
    /\ pc[MANAGER] = "started"
    /\ ~lock
    /\ UNCHANGED vars

InitLock == Constructed(LockPub, LockSpawn, LockThinks) /\ NoParse

NextLock ==
    \/ MainStep
    \/ MonitorStep
    \/ \E a \in Ids : AgentStep(a)
    \/ \E t \in Publishers : PublishStep(t)
    \/ GetHistory

SpecLock == InitLock /\ [][NextLock]_vars

\* every thread is scheduled again and again
FairSpecLock ==
    /\ SpecLock
    /\ WF_vars(MonitorStep)
    /\ \A a \in Ids : WF_vars(AgentStep(a))
    /\ \A t \in Ids : WF_vars(PublishStep(t))

\* the thread is inside publish (message_bus.py 47-82)
InPublish(t) ==
    pc[t] \in {"pub_hist", "pub_snap", "pub_fan", "pub_direct", "pub_notice"}

\* the agent thread is inside get_messages (message_bus.py 101-118), called
\* by check_messages
InGetMessages(a) == pc[a] \in {"check", "drain"}

\* the monitor is inside register_agent or unregister_agent of the bus
\* (message_bus.py 24-45)
InBusRegistry == pc_mon \in {"reg_bus", "unreg_bus", "unreg_drain"}

\* the next step of the agent thread is to take the lock: in publish
\* (message_bus.py 49, 60) and _deliver_to_agent (line 90), and in
\* get_messages (line 105)
RequestsLock(t) ==
    \/ pc[t] \in {"pub_hist", "pub_snap", "pub_direct", "pub_notice", "check"}
    \/ /\ pc[t] = "pub_fan"
       /\ FanoutTarget(snap[t][fan_i[t]], msg[t].from)

\* the next step of the monitor is to take the lock: register_agent and
\* unregister_agent of the bus (message_bus.py 26, 34)
MonitorRequestsLock == pc_mon \in {"reg_bus", "unreg_bus"}

\* the agent thread is inside a call of the bus
InBusCall(a) == InPublish(a) \/ InGetMessages(a)

\* C39: the lock is held only by the monitor inside the drain of the bus's
\* unregister_agent, where it neither asks for the lock nor reads a mailbox
\* with a blocking get, and no agent blocked in the get of WAIT holds it;
\* every register_agent and unregister_agent of the bus returns, and with
\* it the lock is released, and every agent thread that is inside publish
\* or get_messages comes out of it.
C39_NoLockDeadlock ==
    /\ [](lock => /\ pc_mon = "unreg_drain"
                  /\ ~MonitorRequestsLock
                  /\ ENABLED MonitorUnregisterDrain)
    /\ InBusRegistry ~> ~InBusRegistry
    /\ \A a \in Ids : InBusCall(a) ~> ~InBusCall(a)

\* the monitor holds the lock in the drain of unregister_agent while an
\* agent thread inside publish and another at the door of get_messages are
\* to take the lock next
C39_Witness ==
    /\ lock
    /\ pc_mon = "unreg_drain"
    /\ \E t \in Ids : InPublish(t) /\ RequestsLock(t)
    /\ \E a \in Ids : pc[a] = "check" /\ RequestsLock(a)

====
